---- MODULE Spec2Model ----
(***************************************************************************)
(* Follow-up scheduler of pyfinder and its event store.                    *)
(*                                                                         *)
(* The store (services/database.py, ThreadSafeDB) is one SQLite table,     *)
(* event_tracker.  Every store operation is modelled by the SQL statement  *)
(* it executes, run atomically under ThreadSafeDB._lock.  The tracker      *)
(* (services/eventtracker.py) and the scheduler (services/scheduler.py)    *)
(* pass a current_delay_time argument to the store operations; the store   *)
(* operations have no parameter for it and their statements select rows by *)
(* (event_id, service) only, so the argument has no effect on the rows a   *)
(* statement touches.  The "LIMIT ?" of fetch_due_events has no bound      *)
(* value; the statement is modelled without a limit.                       *)
(*                                                                         *)
(* Times are minutes on an integer clock.  NULL is the SQL NULL of a       *)
(* numeric column, NONE the SQL NULL of a text column.                     *)
(***************************************************************************)
EXTENDS Integers, Sequences, FiniteSets, TLC

\* ------------------------------------------------------------------ bounds
MaxRows == 2          \* rows ever inserted into the store
MaxWork == 2          \* work items ever submitted to the executor
MaxTime == 10         \* last instant of the clock
MaxPriority == 2      \* largest priority written by an update
MaxStages == 2        \* stages of the RRSM schedule that are registered
MaxCalls == 3         \* calls of batch_register_from_policy ever begun
MaxBacklog == 3       \* stages of one series that are due in the same pass
MaxRefresh == 1       \* calls of refresh_metadata_after_emsc_update ever begun
MaxRestarts == 1      \* restarts of the process on the same store file
MaxElapsed == 2900    \* longest time from the origin to a policy call, minutes
MaxEarly == 2         \* longest time from a policy call to the origin, minutes
MaxLen == 2           \* records in a station list given to the merger
MaxChannels == 2      \* channels of a station given to a formatter
MaxAlerts == 2        \* messages the listener receives
MaxOptions == 2       \* keyword options passed to build_url

\* -------------------------------------------------------- program constants
NULL == 0 - 1
NONE == "NULL"
STATUS_PENDING == "Pending"
STATUS_COMPLETED == "Completed"
STATUS_PROCESSING == "Processing"
STATUS_INCOMPLETE == "Incomplete"
DefaultPriority == 1
MaxRetries == 3
DefaultExpirationDays == 5
DefaultExpirationMinutes == DefaultExpirationDays * 24 * 60
\* RRSMQueryPolicy.ALLOWED_DRIFT_MINUTES and the "+ 15" of should_query
\* RRSM_PEAKMOTION_PGA_MIN = 0.00001 and RRSM_PEAKMOTION_PGA_MAX = 4*9.806,
\* counted in units of 0.00001.
RRSM_PEAKMOTION_PGA_MIN == 1
RRSM_PEAKMOTION_PGA_MAX == 3922400
\* average_g = 980.665 times 0.01: one percent of g in units of 0.00001 cm/s/s.
PercentG == 980665

ALLOWED_DRIFT_MINUTES == 1
GraceMinutes == 15
\* RRSMQueryPolicy.QUERY_SCHEDULE_MINUTES
QUERY_SCHEDULE_MINUTES == <<0, 5, 15, 60, 180, 360, 1440, 2880>>
\* The clock advances by the distance of the first two stages.
TickMinutes == QUERY_SCHEDULE_MINUTES[2] - QUERY_SCHEDULE_MINUTES[1]

Events == {"e1"}
Services == {"RRSM", "ESM", "SED"}
SERVICE_POLICIES == {"RRSM", "ESM", "EMSC"}
Scheduler == "p1"
SecondScheduler == "p2"
Pollers == {Scheduler, SecondScheduler}
\* (current_delay_time, next_delay_time) of the registered stages, as
\* batch_register_from_policy computes them; the last one is final.
Stages ==
    {<<QUERY_SCHEDULE_MINUTES[i],
       IF i + 1 <= MaxStages THEN QUERY_SCHEDULE_MINUTES[i + 1] ELSE NULL>> :
        i \in 1 .. MaxStages}
ExpirationMinutes == {TickMinutes, DefaultExpirationMinutes}

WorkIds == 1 .. MaxWork

VARIABLES rows, nextRid, now, poller, work, fetched, tracker, loop, mutex,
          policyCall, mergeCall, formatCall, webCall, listener

vars == <<rows, nextRid, now, poller, work, fetched, tracker, loop, mutex,
          policyCall, mergeCall, formatCall, webCall,
          listener>>

\* ------------------------------------------------------------ the store
\* A row of event_tracker with the column defaults of CREATE TABLE; rid is
\* SQLite's rowid.  next_query_format is the textual form of
\* next_query_time: "aware" is isoformat(timespec='seconds') of an aware UTC
\* datetime (..+00:00), "naive" the same of a naive datetime, "fraction" a
\* caller's string with fractional seconds (2025-05-28T18:00:04.22Z).
\* last_modified has the column default DATETIME('now'), the insertion time t.
DefaultRow(rid, e, s, t) ==
    [rid |-> rid, event_id |-> e, service |-> s, status |-> NONE,
     origin_time |-> NULL, last_update_time |-> NULL, last_modified |-> t,
     last_query_time |-> NULL, next_query_time |-> NULL,
     next_query_format |-> NONE,
     current_delay_time |-> NULL, next_delay_time |-> NULL,
     retry_count |-> 0, expiration_time |-> NULL,
     priority |-> DefaultPriority, last_error |-> NONE]

\* UPDATE ... SET <fields>: the named columns are overwritten.
Overwrite(r, fields) ==
    [f \in DOMAIN r |-> IF f \in DOMAIN fields THEN fields[f] ELSE r[f]]

InSeries(r, e, s) == r.event_id = e /\ r.service = s

\* PRIMARY KEY (event_id, service, current_delay_time): a UNIQUE index in
\* which SQLite treats every NULL as distinct from every other value.
key_conflict(rs, e, s, delay) ==
    /\ delay # NULL
    /\ \E i \in DOMAIN rs : InSeries(rs[i], e, s) /\ rs[i].current_delay_time = delay

\* add_event: INSERT OR IGNORE of one row per service, status "Pending",
\* expiration_time = now + expiration_days, next_query_time as given or,
\* when it is None (time NULL), now.  alert carries the caller's origin_time
\* and last_update_time.
RECURSIVE add_event(_, _, _, _, _, _, _, _, _, _)
add_event(rs, rid, e, services, alert, t, exp, delay, next_delay, nqt) ==
    IF services = <<>> THEN rs
    ELSE LET s == Head(services)
             row == Overwrite(DefaultRow(rid, e, s, t),
                      [status |-> STATUS_PENDING,
                       origin_time |-> alert.origin_time,
                       last_update_time |-> alert.last_update_time,
                       next_query_time |-> IF nqt.time = NULL THEN t ELSE nqt.time,
                       next_query_format |-> IF nqt.time = NULL THEN "aware" ELSE nqt.format,
                       current_delay_time |-> delay, next_delay_time |-> next_delay,
                       expiration_time |-> t + exp])
         IN  IF key_conflict(rs, e, s, delay)
             THEN add_event(rs, rid, e, Tail(services), alert, t, exp, delay,
                            next_delay, nqt)
             ELSE add_event(Append(rs, row), rid + 1, e, Tail(services), alert, t,
                            exp, delay, next_delay, nqt)

\* UPDATE event_tracker SET <fields> WHERE event_id = ? AND service = ?
_update_event_fields(rs, e, s, fields) ==
    IF DOMAIN fields = {}
    THEN rs
    ELSE [i \in DOMAIN rs |->
            IF InSeries(rs[i], e, s) THEN Overwrite(rs[i], fields) ELSE rs[i]]

mark_event_completed(rs, e, s, t) ==
    _update_event_fields(rs, e, s,
        [status |-> STATUS_COMPLETED, last_query_time |-> t])

\* DELETE FROM event_tracker WHERE expiration_time <= now
cleanup_expired_events(rs, t) ==
    SelectSeq(rs, LAMBDA r : ~(r.expiration_time # NULL /\ r.expiration_time <= t))

\* SELECT ... WHERE event_id = ? AND service = ?, fetchone(): the first row
\* of the search of the primary-key index, which is ordered by
\* current_delay_time (NULL first) and then by rowid.
IndexBefore(a, b) ==
    \/ a.current_delay_time < b.current_delay_time
    \/ a.current_delay_time = b.current_delay_time /\ a.rid < b.rid

SeriesRows(rs, e, s) == {rs[i] : i \in {j \in DOMAIN rs : InSeries(rs[j], e, s)}}

HasMeta(rs, e, s) == SeriesRows(rs, e, s) # {}

get_event_meta(rs, e, s) ==
    CHOOSE r \in SeriesRows(rs, e, s) :
        \A q \in SeriesRows(rs, e, s) : q = r \/ IndexBefore(r, q)

\* upsert_event_state: INSERT (event_id, service, <fields>) ... ON CONFLICT
\* (event_id, service, current_delay_time) DO UPDATE SET <fields>.  The
\* inserted row has current_delay_time NULL unless the fields carry it.
\* last_modified = now is always among the fields.
upsert_event_state(rs, rid, e, s, t, fields) ==
    LET delay == IF "current_delay_time" \in DOMAIN fields
                 THEN fields.current_delay_time ELSE NULL
        stamp == [last_modified |-> t]
    IN  IF key_conflict(rs, e, s, delay)
        THEN [i \in DOMAIN rs |->
                IF InSeries(rs[i], e, s) /\ rs[i].current_delay_time = delay
                THEN Overwrite(Overwrite(rs[i], fields), stamp) ELSE rs[i]]
        ELSE Append(rs, Overwrite(Overwrite(DefaultRow(rid, e, s, t), fields), stamp))

\* parse_normalized_iso8601: strptime with "%Y-%m-%dT%H:%M:%S.%f" after a
\* trailing Z is removed; a string without fractional seconds or with a UTC
\* offset raises ValueError.
parse_succeeds(format) == format = "fraction"

\* ThreadSafeDB.defer_event: the parsed next_query_time plus the minutes is
\* written through upsert_event_state as a naive isoformat string.
defer_event(rs, rid, e, s, t, minutes) ==
    IF ~HasMeta(rs, e, s) THEN rs
    ELSE LET meta == get_event_meta(rs, e, s)
         IN  IF meta.next_query_time = NULL \/ ~parse_succeeds(meta.next_query_format)
             THEN rs
             ELSE upsert_event_state(rs, rid, e, s, t,
                     [next_query_time |-> meta.next_query_time + minutes,
                      next_query_format |-> "naive"])

\* ORDER BY priority DESC, next_query_time ASC
SortsBefore(a, b) ==
    \/ a.priority > b.priority
    \/ a.priority = b.priority /\ a.next_query_time < b.next_query_time

\* The sorter keeps rows with equal sort keys in scan (rowid) order.
RECURSIVE InsertSorted(_, _)
InsertSorted(sorted, r) ==
    IF sorted = <<>> THEN <<r>>
    ELSE IF SortsBefore(r, Head(sorted))
         THEN <<r>> \o sorted
         ELSE <<Head(sorted)>> \o InsertSorted(Tail(sorted), r)

RECURSIVE SortRows(_)
SortRows(rs) ==
    IF rs = <<>> THEN <<>>
    ELSE InsertSorted(SortRows(SubSeq(rs, 1, Len(rs) - 1)), rs[Len(rs)])

\* WHERE next_query_time <= ? AND status IN ("Pending") [AND service = ?]
IsDue(r, t, service) ==
    /\ r.next_query_time # NULL
    /\ r.next_query_time <= t
    /\ r.status = STATUS_PENDING
    /\ (service # NONE => r.service = service)

\* SELECT event_id, service FROM event_tracker WHERE ... ORDER BY ...
\* An entry carries the two selected columns; src is the row the entry was
\* read from, kept for the properties only and never read by an action.
fetch_due_events(rs, t, service) ==
    LET due == SortRows(SelectSeq(rs, LAMBDA r : IsDue(r, t, service)))
    IN  [i \in DOMAIN due |->
            [event_id |-> due[i].event_id, service |-> due[i].service,
             src |-> due[i]]]

\* --------------------------------------------------------------- tracker
mark_completed(rs, e, s, t) ==
    _update_event_fields(mark_event_completed(rs, e, s, t), e, s,
        [last_query_time |-> t])

mark_as_processing(rs, e, s, t) ==
    _update_event_fields(rs, e, s,
        [status |-> STATUS_PROCESSING, last_query_time |-> t])

mark_failed(rs, e, s, t, error_message) ==
    _update_event_fields(rs, e, s,
        [status |-> STATUS_INCOMPLETE, last_error |-> error_message,
         last_query_time |-> t])

\* ---------------------------------------------------------------- policy
\* RRSMQueryPolicy: retry_count < 3.  The ESM and EMSC policies return None.
should_retry_on_failure(policy, meta) ==
    policy = "RRSM" /\ meta.retry_count < MaxRetries

\* Times handed to the policy are counted in half minutes.
HalfMinutes(minutes) == 2 * minutes

Abs(x) == IF x < 0 THEN 0 - x ELSE x

\* max(self.QUERY_SCHEDULE_MINUTES)
MaxScheduled ==
    CHOOSE d \in {QUERY_SCHEDULE_MINUTES[i] : i \in DOMAIN QUERY_SCHEDULE_MINUTES} :
        \A i \in DOMAIN QUERY_SCHEDULE_MINUTES : QUERY_SCHEDULE_MINUTES[i] <= d

\* The textual forms of origin_time: "zulu" ends in Z
\* (2025-05-28T18:00:04.22Z), "offset" carries a UTC offset (..+00:00),
\* "naive" has neither.
OriginFormats == {"zulu", "offset", "naive"}

\* str.rstrip("Z")
rstrip_Z(format) == IF format = "zulu" THEN "naive" ELSE format

\* normalize_iso8601: the datetime is aware when the string ends in Z or
\* carries an offset, naive otherwise.
normalize_iso8601(format) == IF format = "naive" THEN "naive" ELSE "aware"

\* now - origin with an aware now: TypeError when origin is naive.
SubtractionRaises(origin) == origin = "naive"

\* RRSMQueryPolicy.should_query; value is the first member of the tuple it
\* returns.
should_query(meta) ==
    LET origin == normalize_iso8601(rstrip_Z(meta.origin_format))
        elapsed == meta.elapsed
    IN  IF SubtractionRaises(origin)
        THEN [called |-> TRUE, raised |-> TRUE, value |-> FALSE]
        ELSE [called |-> TRUE, raised |-> FALSE, value |->
                IF elapsed < 0 THEN FALSE
                ELSE IF elapsed > HalfMinutes(MaxScheduled + GraceMinutes) THEN FALSE
                ELSE \E i \in DOMAIN QUERY_SCHEDULE_MINUTES :
                        Abs(elapsed - HalfMinutes(QUERY_SCHEDULE_MINUTES[i]))
                            <= HalfMinutes(ALLOWED_DRIFT_MINUTES)]

\* The scheduled delays the elapsed time has not reached.
Ahead(elapsed) ==
    {i \in DOMAIN QUERY_SCHEDULE_MINUTES :
        elapsed < HalfMinutes(QUERY_SCHEDULE_MINUTES[i])}

\* math.ceil of a number of half minutes, in minutes.
CeilMinutes(half) == (half + 1) \div 2

\* RRSMQueryPolicy.get_next_query_delay_minutes: for the first scheduled
\* delay ahead, max(1, ceil(scheduled - elapsed)); None when none is ahead.
get_next_query_delay_minutes(meta) ==
    LET origin == normalize_iso8601(meta.origin_format)
        elapsed == meta.elapsed
    IN  IF SubtractionRaises(origin)
        THEN [called |-> TRUE, raised |-> TRUE, value |-> NULL]
        ELSE [called |-> TRUE, raised |-> FALSE, value |->
                IF Ahead(elapsed) = {} THEN NULL
                ELSE LET first == CHOOSE i \in Ahead(elapsed) :
                                      \A k \in Ahead(elapsed) : i <= k
                         delay == CeilMinutes(
                             HalfMinutes(QUERY_SCHEDULE_MINUTES[first]) - elapsed)
                     IN  IF delay < 1 THEN 1 ELSE delay]

\* ------------------------------------------------------------------ state
\* handled and submitted list the rowids behind the entries that the current
\* run_once passed to mark_as_processing and to executor.submit, polled is
\* the instant of its get_due_events; no action reads them.
IdlePoller == [pc |-> "idle", due |-> <<>>, i |-> 1,
               handled |-> <<>>, submitted |-> <<>>, polled |-> 0]

NoFetch == [service |-> NONE, result |-> <<>>]

\* A call of batch_register_from_policy by caller c: pc is "idle" before the
\* call and after its return, "adding" inside the loop over the delays and
\* "returned" when the loop has ended.  fresh, created, conflicts and warned
\* record what the call found and did; no action reads them.
Callers == {"c1", "c2"}

IdleCall == [pc |-> "idle", event_id |-> NONE, policy |-> NONE, t0 |-> 0,
             exp |-> 0, i |-> 1, fresh |-> FALSE, created |-> <<>>,
             conflicts |-> 0, warned |-> 0]

\* A call of refresh_metadata_after_emsc_update: todo is the number of rows
\* of all_rows that match the series and are still to be visited by the loop;
\* before is the rowid the store would give next when the call began and
\* completed the rowids that were COMPLETED then; no action reads them.
IdleRefresh == [pc |-> "idle", event_id |-> NONE, service |-> NONE,
                fields |-> <<>>, todo |-> 0, before |-> 1, completed |-> {}]

\* EventTracker.__init__ keeps no logger: the store has one only after
\* set_logger, which FollowUpScheduler.__init__ calls on its tracker.
\* restarts counts the times the process has been started again.
NewTracker == [logger |-> FALSE, calls |-> 0, call |-> [c \in Callers |-> IdleCall],
               refreshes |-> 0, refresh |-> IdleRefresh, restarts |-> 0]

SchedulerTracker == [NewTracker EXCEPT !.logger = TRUE]

\* run_forever and the resources shutdown releases: pc is "running" inside
\* the while loop, "closing" when the loop has been left and shutdown is
\* entered, "draining" after tracker.close() and "stopped" at the end; store
\* and executor are the states of the connection and of the thread pool;
\* logged counts the errors run_forever has logged and late the store
\* operations issued on the closed connection.
\* ThreadSafeDB._lock and the threads that call the store: holder is the
\* thread that has acquired the lock (NONE when it is free); a thread is
\* "idle" outside the store, "waiting" in a store method before its
\* `with self._lock`, "locked" inside the block before its statement and
\* "executed" after it; read is what the statement of get_event returned to
\* defer_event.
Threads == {"scheduler", "worker", "ingress"}

IdleThread == [pc |-> "idle", op |-> NONE, read |-> NULL]

FreeMutex == [holder |-> NONE, thread |-> [t \in Threads |-> IdleThread]]

\* A call of a method of RRSMQueryPolicy: the event_meta it is given (the
\* textual form of origin_time, and the time from the origin to the call in
\* half minutes) and what should_query and get_next_query_delay_minutes gave
\* for it: whether the method was called, whether it raised, and the value.
NoVerdict == [called |-> FALSE, raised |-> FALSE, value |-> FALSE]

NoDelay == [called |-> FALSE, raised |-> FALSE, value |-> NULL]

NoPolicyCall == [origin_format |-> NONE, elapsed |-> 0,
                 should_query |-> NoVerdict, next_delay |-> NoDelay]

\* A call of StationMerger.merge: its two arguments and its result.
NoMergeCall == [esm_data |-> <<>>, rrsm_data |-> <<>>, pc |-> "input",
                merged |-> <<>>, remerged |-> <<>>]

\* No formatter has been called.
NoFormatCall == [pc |-> "idle"]

\* No web service has been called.
NoWebCall == [pc |-> "idle"]

\* The listener: target_regions and min_magnitude are the arguments it was
\* launched with; received counts the messages handled, last is the last
\* one, decision what myprocessing decided for it and logged the number of
\* "Unable to process message" entries in its log.
NoMessage == [unid |-> NONE, action |-> NONE, flynn_region |-> NONE, mag |-> 0,
              lastupdate |-> 0]

NoAlert == [target_regions |-> <<>>, min_magnitude |-> 0, received |-> 0,
            last |-> NoMessage, decision |-> NONE, logged |-> 0]

RunningLoop == [pc |-> "running", store |-> "open", executor |-> "open",
                logged |-> 0, late |-> 0]

Init ==
    /\ tracker = SchedulerTracker
    /\ rows = <<>>
    /\ nextRid = 1
    /\ now = 0
    /\ poller = [p \in Pollers |-> IdlePoller]
    /\ work = <<>>
    /\ fetched = NoFetch
    /\ loop = RunningLoop
    /\ mutex = FreeMutex
    /\ policyCall = NoPolicyCall
    /\ mergeCall = NoMergeCall
    /\ formatCall = NoFormatCall
    /\ webCall = NoWebCall
    /\ listener = NoAlert

\* The clock advances.
Tick ==
    /\ now + TickMinutes <= MaxTime
    /\ now' = now + TickMinutes
    /\ UNCHANGED <<rows, nextRid, poller, work, fetched, tracker, loop,
                   mutex, policyCall, mergeCall, formatCall, webCall,
                   listener>>

\* An alert that reports an event at instant t: the values of origin_time
\* and last_update_time a caller passes on.
AlertAt(t) == [origin_time |-> t, last_update_time |-> t]

\* EventTracker.register_new_schedule: one stage of a series is added with
\* next_query_time = registration instant + delay.
RegisterNewSchedule(e, s, stage, exp, format) ==
    /\ nextRid <= MaxRows
    /\ rows' = add_event(rows, nextRid, e, <<s>>, AlertAt(now), now, exp,
                         stage[1], stage[2],
                         [time |-> now + stage[1], format |-> format])
    /\ nextRid' = nextRid + Len(rows') - Len(rows)
    /\ UNCHANGED <<now, poller, work, fetched, tracker, loop, mutex,
                   policyCall, mergeCall, formatCall, webCall, listener>>

\* EventTracker.cleanup_expired.
CleanupExpired ==
    /\ rows' = cleanup_expired_events(rows, now)
    /\ UNCHANGED <<nextRid, now, poller, work, fetched, tracker, loop, mutex,
                   policyCall, mergeCall, formatCall, webCall, listener>>

\* ------------------------------------------------------------- scheduler
\* Entries of poller p's due list that run_once has not handled yet.
Remaining(p) ==
    IF poller[p].pc = "idle" THEN 0 ELSE Len(poller[p].due) - poller[p].i + 1

RECURSIVE SumRemaining(_)
SumRemaining(ps) ==
    IF ps = {} THEN 0
    ELSE LET p == CHOOSE q \in ps : TRUE
         IN  Remaining(p) + SumRemaining(ps \ {p})

\* run_once, line 193: due_events = tracker.get_due_events(service=None).
\* The guard keeps the number of work items within cap.
FetchWithin(p, cap) ==
    /\ poller[p].pc = "idle"
    /\ LET due == fetch_due_events(rows, now, NONE)
       IN  /\ Len(work) + SumRemaining(Pollers \ {p}) + Len(due) <= cap
           /\ poller' = [poller EXCEPT ![p] =
                 IF due = <<>> THEN IdlePoller
                 ELSE [IdlePoller EXCEPT !.pc = "claim", !.due = due,
                                        !.polled = now]]
    /\ UNCHANGED <<rows, nextRid, now, work, fetched, tracker, loop, mutex,
                   policyCall, mergeCall, formatCall, webCall, listener>>

Fetch(p) == FetchWithin(p, MaxWork)

\* run_once, line 205: tracker.mark_as_processing on the current entry.
Claim(p) ==
    /\ poller[p].pc = "claim"
    /\ LET en == poller[p].due[poller[p].i]
       IN  /\ rows' = mark_as_processing(rows, en.event_id, en.service, now)
           /\ poller' = [poller EXCEPT ![p].pc = "lookup",
                                       ![p].handled = Append(@, en.src.rid)]
    /\ UNCHANGED <<nextRid, now, work, fetched, tracker, loop, mutex,
                   policyCall, mergeCall, formatCall, webCall, listener>>

\* The for loop of run_once moves to the next entry, or run_once returns.
Advance(p) ==
    IF poller[p].i >= Len(poller[p].due)
    THEN [poller EXCEPT ![p] = IdlePoller]
    ELSE [poller EXCEPT ![p].pc = "claim", ![p].i = @ + 1]

\* run_once, lines 208-210: no metadata, continue.
SkipNoMeta(p) ==
    /\ poller[p].pc = "lookup"
    /\ LET en == poller[p].due[poller[p].i]
       IN  ~HasMeta(rows, en.event_id, en.service)
    /\ poller' = Advance(p)
    /\ UNCHANGED <<rows, nextRid, now, work, fetched, tracker, loop, mutex,
                   policyCall, mergeCall, formatCall, webCall, listener>>

\* run_once, lines 212-217: no policy registered for the service, continue.
SkipNoPolicy(p) ==
    /\ poller[p].pc = "lookup"
    /\ LET en == poller[p].due[poller[p].i]
       IN  /\ HasMeta(rows, en.event_id, en.service)
           /\ en.service \notin SERVICE_POLICIES
    /\ poller' = Advance(p)
    /\ UNCHANGED <<rows, nextRid, now, work, fetched, tracker, loop, mutex,
                   policyCall, mergeCall, formatCall, webCall, listener>>

\* The work item of executor.submit(_handle_event, event_id, service,
\* event_meta, policy).  result records how the pipeline run ended; by, idx
\* and src record the poller, the position in its due list and the rowid the
\* entry was read from.  No action reads these four.
WorkItem(p, en, meta) ==
    [event_id |-> en.event_id, service |-> en.service,
     meta |-> [current_delay_time |-> meta.current_delay_time,
               next_delay_time |-> meta.next_delay_time,
               retry_count |-> meta.retry_count],
     policy |-> en.service, pc |-> "queued", retry |-> 0, result |-> NONE,
     engine_missing |-> FALSE, by |-> p, idx |-> poller[p].i, src |-> en.src.rid]

\* run_once, lines 208-221: metadata and policy found, the work is submitted.
Submit(p) ==
    /\ poller[p].pc = "lookup"
    /\ LET en == poller[p].due[poller[p].i]
       IN  /\ HasMeta(rows, en.event_id, en.service)
           /\ en.service \in SERVICE_POLICIES
           /\ work' = Append(work,
                 WorkItem(p, en, get_event_meta(rows, en.event_id, en.service)))
    /\ poller' = [Advance(p) EXCEPT ![p].submitted =
                     IF Advance(p)[p].pc = "idle" THEN <<>>
                     ELSE Append(@, poller[p].due[poller[p].i].src.rid)]
    /\ UNCHANGED <<rows, nextRid, now, fetched, tracker, loop, mutex,
                   policyCall, mergeCall, formatCall, webCall, listener>>

\* ---------------------------------------------------------------- worker
\* _handle_event, lines 83-93: a final stage is marked completed first.
WorkerStart(w) ==
    /\ w \in DOMAIN work
    /\ work[w].pc = "queued"
    /\ rows' = IF work[w].meta.next_delay_time = NULL
               THEN mark_completed(rows, work[w].event_id, work[w].service, now)
               ELSE rows
    /\ work' = [work EXCEPT ![w].pc = "running"]
    /\ UNCHANGED <<nextRid, now, poller, fetched, tracker, loop, mutex,
                   policyCall, mergeCall, formatCall, webCall, listener>>

\* _handle_event, lines 126-135: FinDerManager.run returns a solution,
\* returns None, raises (caught at line 129, no solution), or leaves through
\* sys.exit(1) of FinDerExecutable (SystemExit is no Exception: neither
\* handler of _handle_event catches it). One of the errors is that of
\* FinDerExecutable._check_finder_executable, raised by execute() before the
\* workspace is prepared and before subprocess.Popen.
Outcomes == {"solution", "none", "error", "engine_missing", "exit"}

RunResult(outcome) ==
    CASE outcome = "solution" -> "succeeded"
      [] outcome = "exit" -> "escaped"
      [] OTHER -> "failed"

WorkerRun(w, outcome) ==
    /\ w \in DOMAIN work
    /\ work[w].pc = "running"
    /\ work' = [work EXCEPT ![w].result = RunResult(outcome),
                            ![w].engine_missing = (outcome = "engine_missing"),
                            ![w].pc = RunResult(outcome)]
    /\ UNCHANGED <<rows, nextRid, now, poller, fetched, tracker, loop, mutex,
                   policyCall, mergeCall, formatCall, webCall, listener>>

\* _handle_event, lines 138-140.
WorkerComplete(w) ==
    /\ w \in DOMAIN work
    /\ work[w].pc = "succeeded"
    /\ rows' = mark_completed(rows, work[w].event_id, work[w].service, now)
    /\ work' = [work EXCEPT ![w].pc = "done"]
    /\ UNCHANGED <<nextRid, now, poller, fetched, tracker, loop, mutex,
                   policyCall, mergeCall, formatCall, webCall, listener>>

\* increment_retry_count, lines 126-129: the row is read; nothing is
\* written when it is gone.
WorkerIncRead(w) ==
    /\ w \in DOMAIN work
    /\ work[w].pc = "failed"
    /\ work' = IF HasMeta(rows, work[w].event_id, work[w].service)
               THEN [work EXCEPT ![w].pc = "inc_write",
                        ![w].retry = get_event_meta(rows, work[w].event_id,
                                         work[w].service).retry_count + 1]
               ELSE [work EXCEPT ![w].pc = "decide"]
    /\ UNCHANGED <<rows, nextRid, now, poller, fetched, tracker, loop, mutex,
                   policyCall, mergeCall, formatCall, webCall, listener>>

\* increment_retry_count, lines 130-132.
WorkerIncWrite(w) ==
    /\ w \in DOMAIN work
    /\ work[w].pc = "inc_write"
    /\ rows' = _update_event_fields(rows, work[w].event_id, work[w].service,
                    [retry_count |-> work[w].retry])
    /\ work' = [work EXCEPT ![w].pc = "decide", ![w].retry = 0]
    /\ UNCHANGED <<nextRid, now, poller, fetched, tracker, loop, mutex,
                   policyCall, mergeCall, formatCall, webCall, listener>>

\* _handle_event, lines 145-150: the policy allows a retry on the metadata
\* read at dispatch; last_error is written.
WorkerRetry(w) ==
    /\ w \in DOMAIN work
    /\ work[w].pc = "decide"
    /\ should_retry_on_failure(work[w].policy, work[w].meta)
    /\ rows' = _update_event_fields(rows, work[w].event_id, work[w].service,
                    [last_error |-> "FinDer run failed"])
    /\ work' = [work EXCEPT ![w].pc = "done"]
    /\ UNCHANGED <<nextRid, now, poller, fetched, tracker, loop, mutex,
                   policyCall, mergeCall, formatCall, webCall, listener>>

\* _handle_event, lines 151-158.
WorkerMarkFailed(w) ==
    /\ w \in DOMAIN work
    /\ work[w].pc = "decide"
    /\ ~should_retry_on_failure(work[w].policy, work[w].meta)
    /\ rows' = mark_failed(rows, work[w].event_id, work[w].service, now,
                    "Retry limit reached. FinDer run failed.")
    /\ work' = [work EXCEPT ![w].pc = "done"]
    /\ UNCHANGED <<nextRid, now, poller, fetched, tracker, loop, mutex,
                   policyCall, mergeCall, formatCall, webCall, listener>>

PollerStep(p) ==
    \/ Fetch(p)
    \/ Claim(p)
    \/ SkipNoMeta(p)
    \/ SkipNoPolicy(p)
    \/ Submit(p)

WorkerStep(w) ==
    \/ WorkerStart(w)
    \/ \E o \in Outcomes : WorkerRun(w, o)
    \/ WorkerComplete(w)
    \/ WorkerIncRead(w)
    \/ WorkerIncWrite(w)
    \/ WorkerRetry(w)
    \/ WorkerMarkFailed(w)

Next ==
    \/ Tick
    \/ \E e \in Events, s \in Services, st \in Stages, x \in ExpirationMinutes :
          RegisterNewSchedule(e, s, st, x, "aware")
    \/ CleanupExpired
    \/ PollerStep(Scheduler)
    \/ \E w \in WorkIds : WorkerStep(w)

\* One scheduler, its worker pool, registrations, cleanup and the clock.
Spec == Init /\ [][Next]_vars

\* The same with the workers scheduled fairly, every pipeline run ending,
\* and the scheduler finishing the run_once it has begun.
SpecFair ==
    /\ Init
    /\ [][Next]_vars
    /\ \A w \in WorkIds : WF_vars(WorkerStep(w))
    /\ WF_vars(Claim(Scheduler) \/ SkipNoMeta(Scheduler)
                 \/ SkipNoPolicy(Scheduler) \/ Submit(Scheduler))

\* Two schedulers poll the same store.
NextPollers ==
    \/ Tick
    \/ \E e \in Events, s \in Services, st \in Stages :
          RegisterNewSchedule(e, s, st, TickMinutes, "aware")
    \/ CleanupExpired
    \/ PollerStep(Scheduler)
    \/ PollerStep(SecondScheduler)
    \/ \E w \in WorkIds : WorkerStep(w)

SpecPollers == Init /\ [][NextPollers]_vars

\* ------------------------------------------------- clients of the store
\* EventTracker.initialize_event: add_event with the default stage (NULL).
InitializeEvent(e, services) ==
    /\ nextRid + Len(services) - 1 <= MaxRows
    /\ rows' = add_event(rows, nextRid, e, services, AlertAt(now), now,
                         DefaultExpirationMinutes,
                         NULL, NULL, [time |-> NULL, format |-> NONE])
    /\ nextRid' = nextRid + Len(rows') - Len(rows)
    /\ UNCHANGED <<now, poller, work, fetched, tracker, loop, mutex,
                   policyCall, mergeCall, formatCall, webCall, listener>>

\* EventTracker._db_update_event_fields with one field, or with none.
UpdateFields(e, s, fields) ==
    /\ rows' = _update_event_fields(rows, e, s, fields)
    /\ UNCHANGED <<nextRid, now, poller, work, fetched, tracker, loop, mutex,
                   policyCall, mergeCall, formatCall, webCall, listener>>

FieldUpdates ==
    {[priority |-> p] : p \in 1 .. MaxPriority} \cup {<<>>}

\* ThreadSafeDB.upsert_event_state, called with or without the
\* current_delay_time among the fields.
UpsertFields(with_delay) ==
    IF with_delay
    THEN [status |-> STATUS_PENDING, current_delay_time |-> 0,
          next_query_time |-> now, next_query_format |-> "aware"]
    ELSE [status |-> STATUS_PENDING, next_query_time |-> now,
          next_query_format |-> "aware"]

Upsert(e, s, with_delay) ==
    /\ nextRid <= MaxRows
    /\ rows' = upsert_event_state(rows, nextRid, e, s, now, UpsertFields(with_delay))
    /\ nextRid' = nextRid + Len(rows') - Len(rows)
    /\ UNCHANGED <<now, poller, work, fetched, tracker, loop, mutex,
                   policyCall, mergeCall, formatCall, webCall, listener>>

\* ThreadSafeDB.defer_event.
Defer(e, s, minutes) ==
    /\ nextRid <= MaxRows
    /\ rows' = defer_event(rows, nextRid, e, s, now, minutes)
    /\ nextRid' = nextRid + Len(rows') - Len(rows)
    /\ UNCHANGED <<now, poller, work, fetched, tracker, loop, mutex,
                   policyCall, mergeCall, formatCall, webCall, listener>>

\* EventTracker.mark_completed, mark_as_processing and mark_failed.
MarkCompleted(e, s) ==
    /\ rows' = mark_completed(rows, e, s, now)
    /\ UNCHANGED <<nextRid, now, poller, work, fetched, tracker, loop, mutex,
                   policyCall, mergeCall, formatCall, webCall, listener>>

MarkAsProcessing(e, s) ==
    /\ rows' = mark_as_processing(rows, e, s, now)
    /\ UNCHANGED <<nextRid, now, poller, work, fetched, tracker, loop, mutex,
                   policyCall, mergeCall, formatCall, webCall, listener>>

MarkFailed(e, s) ==
    /\ rows' = mark_failed(rows, e, s, now, "failed")
    /\ UNCHANGED <<nextRid, now, poller, work, fetched, tracker, loop, mutex,
                   policyCall, mergeCall, formatCall, webCall, listener>>

\* EventTracker.get_due_events(service); NONE is service=None.
ServiceFilters == Services \cup {NONE}

GetDueEvents(service) ==
    /\ fetched' = [service |-> service,
                   result |-> fetch_due_events(rows, now, service)]
    /\ UNCHANGED <<rows, nextRid, now, poller, work, tracker, loop, mutex,
                   policyCall, mergeCall, formatCall, webCall, listener>>

StoreServices == {"RRSM", "ESM"}

\* expiration_days = 0 lets a row expire at the instant it is added.
NextStore ==
    \/ \E e \in Events, s \in StoreServices, st \in Stages, f \in {"aware", "fraction"} :
          RegisterNewSchedule(e, s, st, 0, f)
    \/ \E e \in Events, ss \in {<<"RRSM">>, <<"RRSM", "ESM">>} : InitializeEvent(e, ss)
    \/ \E e \in Events, s \in StoreServices, f \in FieldUpdates : UpdateFields(e, s, f)
    \/ \E e \in Events, s \in StoreServices, d \in BOOLEAN : Upsert(e, s, d)
    \/ \E e \in Events, s \in StoreServices : Defer(e, s, TickMinutes)
    \/ \E e \in Events, s \in StoreServices : MarkCompleted(e, s)
    \/ \E e \in Events, s \in StoreServices : MarkAsProcessing(e, s)
    \/ \E e \in Events, s \in StoreServices : MarkFailed(e, s)
    \/ CleanupExpired
    \/ \E f \in ServiceFilters : GetDueEvents(f)

\* The store under any sequence of calls of its clients.
SpecStore == Init /\ [][NextStore]_vars

\* ------------------------------------------------- batch registration
\* QUERY_SCHEDULE_MINUTES of the policy registered under a service name: the
\* RRSM schedule (its first MaxStages delays), empty for ESM and EMSC.
PolicyDelays(policy) ==
    IF policy = "RRSM" THEN SubSeq(QUERY_SCHEDULE_MINUTES, 1, MaxStages) ELSE <<>>

\* EventTracker.set_logger.
SetLogger ==
    /\ ~tracker.logger
    /\ tracker' = [tracker EXCEPT !.logger = TRUE]
    /\ UNCHANGED <<rows, nextRid, now, poller, work, fetched, loop, mutex,
                   policyCall, mergeCall, formatCall, webCall, listener>>

\* batch_register_from_policy is entered: now is read once, before the loop.
\* With an empty schedule the loop body never runs.
BatchRegisterFromPolicy(c, e, policy, exp) ==
    /\ tracker.call[c].pc = "idle"
    /\ tracker.calls < MaxCalls
    /\ tracker' = [tracker EXCEPT
          !.calls = @ + 1,
          !.call[c] = [IdleCall EXCEPT
              !.pc = IF PolicyDelays(policy) = <<>> THEN "returned" ELSE "adding",
              !.event_id = e, !.policy = policy, !.t0 = now, !.exp = exp,
              !.fresh = ~HasMeta(rows, e, policy)]]
    /\ UNCHANGED <<rows, nextRid, now, poller, work, fetched, loop, mutex,
                   policyCall, mergeCall, formatCall, webCall, listener>>

\* One iteration of the loop: register_new_schedule for stage i, whose
\* add_event inserts the row or, on a conflict, warns when the store has a
\* logger.
BatchAdd(c) ==
    LET cl == tracker.call[c]
        delays == PolicyDelays(cl.policy)
        delay == delays[cl.i]
        next_delay == IF cl.i + 1 <= Len(delays) THEN delays[cl.i + 1] ELSE NULL
        after == add_event(rows, nextRid, cl.event_id, <<cl.policy>>, AlertAt(cl.t0),
                           now, cl.exp, delay, next_delay,
                           [time |-> cl.t0 + delay, format |-> "aware"])
        inserted == Len(after) - Len(rows)
    IN  /\ cl.pc = "adding"
        /\ rows' = after
        /\ nextRid' = nextRid + inserted
        /\ tracker' = [tracker EXCEPT !.call[c] = [cl EXCEPT
              !.i = @ + 1,
              !.pc = IF cl.i = Len(delays) THEN "returned" ELSE "adding",
              !.created = IF inserted = 1 THEN Append(@, <<delay, next_delay>>) ELSE @,
              !.conflicts = @ + 1 - inserted,
              !.warned = IF tracker.logger THEN @ + 1 - inserted ELSE @]]
        /\ UNCHANGED <<now, poller, work, fetched, loop, mutex, policyCall,
                       mergeCall, formatCall, webCall, listener>>

\* The call has returned to its caller, which may call again.
BatchReturn(c) ==
    /\ tracker.call[c].pc = "returned"
    /\ tracker' = [tracker EXCEPT !.call[c] = IdleCall]
    /\ UNCHANGED <<rows, nextRid, now, poller, work, fetched, loop, mutex,
                   policyCall, mergeCall, formatCall, webCall, listener>>

\* ------------------------------------------------------------ backlog
\* batch_register_from_policy run from its first stage i to its last without
\* another thread in between.
RECURSIVE batch_register_from_policy(_, _, _, _, _, _, _, _)
batch_register_from_policy(rs, rid, e, s, delays, i, t, exp) ==
    IF i > Len(delays) THEN rs
    ELSE LET next_delay == IF i + 1 <= Len(delays) THEN delays[i + 1] ELSE NULL
             after == add_event(rs, rid, e, <<s>>, AlertAt(t), t, exp, delays[i],
                                next_delay, [time |-> t + delays[i], format |-> "aware"])
         IN  batch_register_from_policy(after, rid + Len(after) - Len(rs), e, s,
                                        delays, i + 1, t, exp)

BacklogDelays == SubSeq(QUERY_SCHEDULE_MINUTES, 1, MaxBacklog)

BacklogWorkIds == 1 .. MaxBacklog

\* The scheduler starts when the first MaxBacklog stages of an RRSM series,
\* registered at instant 0, are all due.
InitBacklog ==
    /\ tracker = SchedulerTracker
    /\ rows = batch_register_from_policy(<<>>, 1, "e1", "RRSM", BacklogDelays, 1, 0,
                                         DefaultExpirationMinutes)
    /\ nextRid = MaxBacklog + 1
    /\ now = BacklogDelays[MaxBacklog]
    /\ poller = [p \in Pollers |-> IdlePoller]
    /\ work = <<>>
    /\ fetched = NoFetch
    /\ loop = RunningLoop
    /\ mutex = FreeMutex
    /\ policyCall = NoPolicyCall
    /\ mergeCall = NoMergeCall
    /\ formatCall = NoFormatCall
    /\ webCall = NoWebCall
    /\ listener = NoAlert

NextBacklog ==
    \/ FetchWithin(Scheduler, MaxBacklog)
    \/ Claim(Scheduler)
    \/ Submit(Scheduler)
    \/ \E w \in BacklogWorkIds : WorkerStart(w)
    \/ \E w \in BacklogWorkIds, outcome \in Outcomes : WorkerRun(w, outcome)
    \/ \E w \in BacklogWorkIds : WorkerComplete(w)
    \/ \E w \in BacklogWorkIds : WorkerIncRead(w)
    \/ \E w \in BacklogWorkIds : WorkerIncWrite(w)
    \/ \E w \in BacklogWorkIds : WorkerRetry(w)

\* One scheduler and its workers on a backlog of due stages.
SpecBacklog == InitBacklog /\ [][NextBacklog]_vars

\* ------------------------------------------------------- EMSC refresh
\* EventTracker.get_all_pending_events: "all pending or failed events
\* across all services".
get_all_pending_events(rs) ==
    SelectSeq(rs, LAMBDA r : r.status \in {STATUS_PENDING, STATUS_INCOMPLETE})

\* fields_to_update with the retry_count reset as well.
RefreshFieldsResetRetry(alert, t) ==
    [last_update_time |-> alert.last_update_time, last_modified |-> t,
     retry_count |-> 0]

\* fields_to_update: last_update_time and last_modified always, origin_time
\* when one is given (NULL is None).
RefreshFields(alert, t) ==
    IF alert.origin_time = NULL
    THEN [last_update_time |-> alert.last_update_time, last_modified |-> t]
    ELSE [last_update_time |-> alert.last_update_time, last_modified |-> t,
          origin_time |-> alert.origin_time]

\* An update alert received at instant t: last_update_time t, and either no
\* origin_time or the origin_time t.
UpdateAlert(t, with_origin) ==
    [origin_time |-> IF with_origin THEN t ELSE NULL, last_update_time |-> t]

\* refresh_metadata_after_emsc_update is entered: the fields are built and
\* all_rows is read.
RefreshStart(e, s, with_origin) ==
    /\ tracker.refresh.pc = "idle"
    /\ tracker.refreshes < MaxRefresh
    /\ LET matching == SelectSeq(get_all_pending_events(rows),
                                 LAMBDA r : InSeries(r, e, s))
       IN  tracker' = [tracker EXCEPT
              !.refreshes = @ + 1,
              !.refresh = [pc |-> IF matching = <<>> THEN "returned" ELSE "updating",
                           event_id |-> e, service |-> s,
                           fields |-> RefreshFields(UpdateAlert(now, with_origin), now),
                           todo |-> Len(matching), before |-> nextRid,
                           completed |-> {rows[i].rid : i \in
                               {k \in DOMAIN rows : rows[k].status = STATUS_COMPLETED}}]]
    /\ UNCHANGED <<rows, nextRid, now, poller, work, fetched, loop, mutex,
                   policyCall, mergeCall, formatCall, webCall, listener>>

\* One iteration of the loop for a matching row: _db_update_event_fields.
RefreshUpdate ==
    LET rf == tracker.refresh
    IN  /\ rf.pc = "updating"
        /\ rows' = _update_event_fields(rows, rf.event_id, rf.service, rf.fields)
        /\ tracker' = [tracker EXCEPT !.refresh = [rf EXCEPT
              !.todo = @ - 1,
              !.pc = IF rf.todo = 1 THEN "returned" ELSE "updating"]]
        /\ UNCHANGED <<nextRid, now, poller, work, fetched, loop, mutex,
                       policyCall, mergeCall, formatCall, webCall, listener>>

\* The call has returned.
RefreshReturn ==
    /\ tracker.refresh.pc = "returned"
    /\ tracker' = [tracker EXCEPT !.refresh = [IdleRefresh EXCEPT !.pc = "idle"]]
    /\ UNCHANGED <<rows, nextRid, now, poller, work, fetched, loop, mutex,
                   policyCall, mergeCall, formatCall, webCall, listener>>

RefreshServices == {"RRSM", "ESM"}

NextRefresh ==
    \/ Tick
    \/ \E e \in Events, s \in RefreshServices, st \in Stages :
          RegisterNewSchedule(e, s, st, DefaultExpirationMinutes, "aware")
    \/ Fetch(Scheduler)
    \/ Claim(Scheduler)
    \/ Submit(Scheduler)
    \/ \E w \in WorkIds : WorkerStep(w)
    \/ \E e \in Events, o \in BOOLEAN : RefreshStart(e, "RRSM", o)
    \/ RefreshUpdate
    \/ RefreshReturn

\* The scheduler and its workers with EMSC updates arriving.
SpecRefresh == Init /\ [][NextRefresh]_vars

\* A tracker as EventTracker.__init__ leaves it, on an empty store.
InitTracker ==
    /\ tracker = NewTracker
    /\ rows = <<>>
    /\ nextRid = 1
    /\ now = 0
    /\ poller = [p \in Pollers |-> IdlePoller]
    /\ work = <<>>
    /\ fetched = NoFetch
    /\ loop = RunningLoop
    /\ mutex = FreeMutex
    /\ policyCall = NoPolicyCall
    /\ mergeCall = NoMergeCall
    /\ formatCall = NoFormatCall
    /\ webCall = NoWebCall
    /\ listener = NoAlert

NextBatch ==
    \/ Tick
    \/ SetLogger
    \/ \E c \in Callers, e \in Events, policy \in SERVICE_POLICIES, x \in ExpirationMinutes :
          BatchRegisterFromPolicy(c, e, policy, x)
    \/ \E c \in Callers : BatchAdd(c)
    \/ \E c \in Callers : BatchReturn(c)
    \/ CleanupExpired

\* Callers of batch_register_from_policy, the clock and the cleanup.
SpecBatch == InitTracker /\ [][NextBatch]_vars

\* ------------------------------------------------------------- restart
\* The process ends, at any point of run_once and of its workers, and is
\* started again on the same database file: the threads and the queue of the
\* executor are gone, ThreadSafeDB.__init__ opens the file and finds the
\* table (CREATE TABLE IF NOT EXISTS) with every committed statement in it,
\* and FollowUpScheduler.__init__ builds a new executor and sets the logger.
Restart ==
    /\ tracker.restarts < MaxRestarts
    /\ tracker' = [SchedulerTracker EXCEPT !.restarts = tracker.restarts + 1]
    /\ poller' = [p \in Pollers |-> IdlePoller]
    /\ work' = <<>>
    /\ fetched' = NoFetch
    /\ UNCHANGED <<rows, nextRid, now, loop, mutex, policyCall, mergeCall,
                   formatCall, webCall, listener>>

NextRestart ==
    \/ Next
    \/ Restart

\* One scheduler, its workers, registrations and cleanup, with restarts.
SpecRestart == Init /\ [][NextRestart]_vars

\* ------------------------------------------------- run_forever, shutdown
LoopRunning == loop.pc = "running"

StoreOpen == loop.store = "open"

\* run_forever, lines 232-234: a step of run_once inside the while loop.
LoopPoll(p) ==
    /\ LoopRunning
    /\ PollerStep(p)

\* run_forever, lines 237-239: a statement of run_once raises an Exception
\* (sqlite3.OperationalError of the store, for one); the handler logs the
\* error and calls shutdown.  run_once is abandoned where it was.
PollRaises(p) ==
    /\ LoopRunning
    /\ poller' = [poller EXCEPT ![p] = IdlePoller]
    /\ loop' = [loop EXCEPT !.pc = "closing", !.logged = @ + 1]
    /\ UNCHANGED <<rows, nextRid, now, work, fetched, tracker, mutex,
                   policyCall, mergeCall, formatCall, webCall, listener>>

\* run_forever, lines 235-236: KeyboardInterrupt, in run_once or in the
\* sleep; the handler calls shutdown.
Interrupt(p) ==
    /\ LoopRunning
    /\ poller' = [poller EXCEPT ![p] = IdlePoller]
    /\ loop' = [loop EXCEPT !.pc = "closing"]
    /\ UNCHANGED <<rows, nextRid, now, work, fetched, tracker, mutex,
                   policyCall, mergeCall, formatCall, webCall, listener>>

\* shutdown, lines 180-183: self.tracker.close().
ShutdownClose ==
    /\ loop.pc = "closing"
    /\ loop' = [loop EXCEPT !.pc = "draining", !.store = "closed"]
    /\ UNCHANGED <<rows, nextRid, now, poller, work, fetched, tracker, mutex,
                   policyCall, mergeCall, formatCall, webCall, listener>>

\* shutdown, lines 185-189: self.executor.shutdown(wait=False); the work
\* already submitted goes on running.
ShutdownExecutor ==
    /\ loop.pc = "draining"
    /\ loop' = [loop EXCEPT !.pc = "stopped", !.executor = "shutdown"]
    /\ UNCHANGED <<rows, nextRid, now, poller, work, fetched, tracker, mutex,
                   policyCall, mergeCall, formatCall, webCall, listener>>

\* A worker's next step is a call of the tracker.
AtStoreCall(w) ==
    \/ work[w].pc = "queued" /\ work[w].meta.next_delay_time = NULL
    \/ work[w].pc \in {"succeeded", "failed", "inc_write", "decide"}

\* A step of a worker while the connection is open.
WorkerOnOpenStore(w) ==
    /\ StoreOpen
    /\ WorkerStep(w)

\* A step of a worker that calls nothing of the tracker, after close().
WorkerAwayFromStore(w) ==
    /\ ~StoreOpen
    /\ w \in DOMAIN work
    /\ ~AtStoreCall(w)
    /\ WorkerStep(w)

\* A worker calls the tracker after close(): the statement raises
\* sqlite3.ProgrammingError, the handler at line 160 calls
\* increment_retry_count, which raises again, and the error leaves
\* _handle_event.
WorkerOnClosedStore(w) ==
    /\ ~StoreOpen
    /\ w \in DOMAIN work
    /\ AtStoreCall(w)
    /\ work' = [work EXCEPT ![w].pc = "escaped"]
    /\ loop' = [loop EXCEPT !.late = @ + 1]
    /\ UNCHANGED <<rows, nextRid, now, poller, fetched, tracker, mutex,
                   policyCall, mergeCall, formatCall, webCall, listener>>

\* A registration by the ingress while the connection is open.
LoopRegister(e, s, stage) ==
    /\ StoreOpen
    /\ RegisterNewSchedule(e, s, stage, DefaultExpirationMinutes, "aware")

NextLoop ==
    \/ Tick
    \/ \E e \in Events, s \in Services, st \in Stages : LoopRegister(e, s, st)
    \/ LoopPoll(Scheduler)
    \/ PollRaises(Scheduler)
    \/ Interrupt(Scheduler)
    \/ ShutdownClose
    \/ ShutdownExecutor
    \/ \E w \in WorkIds : WorkerOnOpenStore(w)
    \/ \E w \in WorkIds : WorkerAwayFromStore(w)
    \/ \E w \in WorkIds : WorkerOnClosedStore(w)

\* run_forever from its start to the end of shutdown, with the workers.
SpecLoop == Init /\ [][NextLoop]_vars

\* ------------------------------------------------- calls of the policy
\* The policy is asked about an event whose origin_time has any of the
\* textual forms and lies up to MaxElapsed minutes back or MaxEarly ahead.
InitPolicy ==
    /\ policyCall \in
          {[NoPolicyCall EXCEPT !.origin_format = f, !.elapsed = t] :
              f \in OriginFormats,
              t \in (0 - HalfMinutes(MaxEarly)) .. HalfMinutes(MaxElapsed)}
    /\ tracker = SchedulerTracker
    /\ rows = <<>>
    /\ nextRid = 1
    /\ now = 0
    /\ poller = [p \in Pollers |-> IdlePoller]
    /\ work = <<>>
    /\ fetched = NoFetch
    /\ loop = RunningLoop
    /\ mutex = FreeMutex
    /\ mergeCall = NoMergeCall
    /\ formatCall = NoFormatCall
    /\ webCall = NoWebCall
    /\ listener = NoAlert

ShouldQuery ==
    /\ ~policyCall.should_query.called
    /\ policyCall' = [policyCall EXCEPT !.should_query =
          should_query([origin_format |-> policyCall.origin_format,
                        elapsed |-> policyCall.elapsed])]
    /\ UNCHANGED <<rows, nextRid, now, poller, work, fetched, tracker, loop,
                   mutex, mergeCall, formatCall, webCall, listener>>

NextDelayMinutes ==
    /\ ~policyCall.next_delay.called
    /\ policyCall' = [policyCall EXCEPT !.next_delay =
          get_next_query_delay_minutes([origin_format |-> policyCall.origin_format,
                                        elapsed |-> policyCall.elapsed])]
    /\ UNCHANGED <<rows, nextRid, now, poller, work, fetched, tracker, loop,
                   mutex, mergeCall, formatCall, webCall, listener>>

NextPolicy ==
    \/ ShouldQuery
    \/ NextDelayMinutes

SpecPolicy == InitPolicy /\ [][NextPolicy]_vars

\* ------------------------------------------------------ station merger
\* all(sta.get(k) for k in [...]): every code is a non-empty string.
HasCodes(sta) ==
    sta.network # "" /\ sta.station # "" /\ sta.location # "" /\ sta.channel # ""

\* round(x, 4) of a coordinate counted in units of 0.00001 degree.
Round4(x) == ((x + 5) \div 10) * 10

\* StationMerger._make_key: network.station.location.channel when all four
\* codes are there, else the rounded latitude and longitude.
_make_key(sta) ==
    IF HasCodes(sta)
    THEN [sncl |-> <<sta.network, sta.station, sta.location, sta.channel>>,
          coord |-> <<>>]
    ELSE [sncl |-> <<>>,
          coord |-> <<Round4(sta.latitude), Round4(sta.longitude)>>]

\* merged[key] = sta on a dict: the value of a key that is there is
\* replaced where it stands, a new key goes to the end.
Put(merged, sta) ==
    IF \E i \in DOMAIN merged : _make_key(merged[i]) = _make_key(sta)
    THEN [i \in DOMAIN merged |->
            IF _make_key(merged[i]) = _make_key(sta) THEN sta ELSE merged[i]]
    ELSE Append(merged, sta)

RECURSIVE PutAll(_, _)
PutAll(merged, data) ==
    IF data = <<>> THEN merged ELSE PutAll(Put(merged, Head(data)), Tail(data))

\* A sort that is not stable: a record goes before the records of equal pga.
RECURSIVE InsertBeforeEqual(_, _)
InsertBeforeEqual(sorted, sta) ==
    IF sorted = <<>> THEN <<sta>>
    ELSE IF sta.pga >= Head(sorted).pga
         THEN <<sta>> \o sorted
         ELSE <<Head(sorted)>> \o InsertBeforeEqual(Tail(sorted), sta)

\* sorted(..., key=pga, reverse=True): descending, records of equal pga in
\* the order they had.
RECURSIVE InsertByPga(_, _)
InsertByPga(sorted, sta) ==
    IF sorted = <<>> THEN <<sta>>
    ELSE IF sta.pga > Head(sorted).pga
         THEN <<sta>> \o sorted
         ELSE <<Head(sorted)>> \o InsertByPga(Tail(sorted), sta)

RECURSIVE SortByPga(_)
SortByPga(data) ==
    IF data = <<>> THEN <<>>
    ELSE InsertByPga(SortByPga(SubSeq(data, 1, Len(data) - 1)), data[Len(data)])

\* The merge with the ESM records indexed first and the RRSM records last.
merge_rrsm_last(esm_data, rrsm_data) ==
    SortByPga(PutAll(PutAll(<<>>, esm_data), rrsm_data))

\* StationMerger.merge: the RRSM records are indexed first, the ESM records
\* overwrite them, the values are sorted by descending pga.
merge(esm_data, rrsm_data) ==
    SortByPga(PutAll(PutAll(<<>>, rrsm_data), esm_data))

\* The records a provider can deliver: one station with or without a
\* location code, at three latitudes of which two round to the same, with
\* two values of pga.
Latitudes == {4000012, 4000014, 4000026}

StationRecords(source) ==
    {[network |-> "IT", station |-> "ACC", location |-> loc, channel |-> "HNZ",
      latitude |-> lat, longitude |-> 2800000, pga |-> pga, source |-> source] :
        loc \in {"00", ""}, lat \in Latitudes, pga \in {5, 7}}

StationLists(source) ==
    UNION {[1 .. n -> StationRecords(source)] : n \in 0 .. MaxLen}

InitMerge ==
    /\ mergeCall \in
          {[NoMergeCall EXCEPT !.esm_data = b, !.rrsm_data = a] :
              a \in StationLists("RRSM"), b \in StationLists("ESM")}
    /\ tracker = SchedulerTracker
    /\ rows = <<>>
    /\ nextRid = 1
    /\ now = 0
    /\ poller = [p \in Pollers |-> IdlePoller]
    /\ work = <<>>
    /\ fetched = NoFetch
    /\ loop = RunningLoop
    /\ mutex = FreeMutex
    /\ policyCall = NoPolicyCall
    /\ formatCall = NoFormatCall
    /\ webCall = NoWebCall
    /\ listener = NoAlert

\* StationMerger().merge(esm_data, rrsm_data) is called and returns.
Merge ==
    /\ mergeCall.pc = "input"
    /\ mergeCall' = [mergeCall EXCEPT !.pc = "merged",
          !.merged = merge(mergeCall.esm_data, mergeCall.rrsm_data)]
    /\ UNCHANGED <<rows, nextRid, now, poller, work, fetched, tracker, loop,
                   mutex, policyCall, formatCall, webCall, listener>>

\* The merged list is merged again, with an empty list of RRSM records.
MergeAgain ==
    /\ mergeCall.pc = "merged"
    /\ mergeCall' = [mergeCall EXCEPT !.pc = "remerged",
          !.remerged = merge(mergeCall.merged, <<>>)]
    /\ UNCHANGED <<rows, nextRid, now, poller, work, fetched, tracker, loop,
                   mutex, policyCall, formatCall, webCall, listener>>

NextMerge == Merge \/ MergeAgain

SpecMerge == InitMerge /\ [][NextMerge]_vars

\* ------------------------------------------------------- the store lock
\* The methods of ThreadSafeDB that execute statements on the shared cursor.
\* defer_event executes two: the SELECT of get_event and, when the row has a
\* next_query_time that parses, the INSERT of upsert_event_state.
StoreMethods ==
    {"add_event", "fetch_due_events", "get_event_meta", "_update_event_fields",
     "mark_event_completed", "cleanup_expired_events", "defer_event"}

\* The methods whose statement can add a row.
Inserting == {"add_event", "defer_event"}

\* A thread enters a method of the store.  (A method that can add a row is
\* entered while the store has room and no other thread is in such a method.)
CallStore(t, method) ==
    /\ mutex.thread[t].pc = "idle"
    /\ method \in Inserting =>
          /\ nextRid <= MaxRows
          /\ \A u \in Threads : mutex.thread[u].op \notin Inserting
    /\ mutex' = [mutex EXCEPT !.thread[t] = [IdleThread EXCEPT !.pc = "waiting",
                                                              !.op = method]]
    /\ UNCHANGED <<rows, nextRid, now, poller, work, fetched, tracker, loop,
                   policyCall, mergeCall, formatCall, webCall, listener>>

\* A statement of the method reached without taking the lock.
AcquireWithoutLock(t) ==
    /\ mutex.thread[t].pc = "waiting"
    /\ mutex' = [mutex EXCEPT !.holder = t, !.thread[t].pc = "locked"]
    /\ UNCHANGED <<rows, nextRid, now, poller, work, fetched, tracker, loop,
                   policyCall, mergeCall, formatCall, webCall, listener>>

\* `with self._lock:` is entered: the thread gets the lock when it is free.
Acquire(t) ==
    /\ mutex.thread[t].pc = "waiting"
    /\ mutex.holder = NONE
    /\ mutex' = [mutex EXCEPT !.holder = t, !.thread[t].pc = "locked"]
    /\ UNCHANGED <<rows, nextRid, now, poller, work, fetched, tracker, loop,
                   policyCall, mergeCall, formatCall, webCall, listener>>

\* What the SELECT of get_event gives defer_event to work with: the
\* next_query_time of the row, NULL when there is no row or no time that
\* parses.
DeferRead(rs, e, s) ==
    IF ~HasMeta(rs, e, s) THEN NULL
    ELSE LET meta == get_event_meta(rs, e, s)
         IN  IF parse_succeeds(meta.next_query_format)
             THEN meta.next_query_time ELSE NULL

\* The store after the statement of the method the thread is in.
StatementResult(th, e, s, stage) ==
    CASE th.op = "add_event" ->
            add_event(rows, nextRid, e, <<s>>, AlertAt(now), now, 0, stage[1],
                      stage[2], [time |-> now + stage[1], format |-> "fraction"])
      [] th.op = "_update_event_fields" ->
            _update_event_fields(rows, e, s, [priority |-> MaxPriority])
      [] th.op = "mark_event_completed" -> mark_event_completed(rows, e, s, now)
      [] th.op = "cleanup_expired_events" -> cleanup_expired_events(rows, now)
      [] th.op = "defer_event" /\ th.read # NULL ->
            upsert_event_state(rows, nextRid, e, s, now,
                [next_query_time |-> th.read + TickMinutes,
                 next_query_format |-> "naive"])
      [] OTHER -> rows

\* The statement inside the block is executed and committed.
Execute(t, e, s, stage) ==
    LET th == mutex.thread[t]
    IN  /\ th.pc = "locked"
        /\ rows' = StatementResult(th, e, s, stage)
        /\ nextRid' = IF Len(rows') > Len(rows) THEN nextRid + 1 ELSE nextRid
        /\ fetched' = IF th.op = "fetch_due_events"
                      THEN [service |-> NONE, result |-> fetch_due_events(rows, now, NONE)]
                      ELSE fetched
        /\ mutex' = [mutex EXCEPT !.thread[t].pc = "executed",
              !.thread[t].read = IF th.op = "defer_event" /\ th.read = NULL
                                 THEN DeferRead(rows, e, s) ELSE NULL]
        /\ UNCHANGED <<now, poller, work, tracker, loop, policyCall, mergeCall,
                       formatCall, webCall, listener>>

\* The block is left and the lock released.  defer_event goes on to its
\* second statement when the first gave it a time; every other method
\* returns.
Release(t) ==
    LET th == mutex.thread[t]
    IN  /\ th.pc = "executed"
        /\ mutex' = [mutex EXCEPT !.holder = NONE,
              !.thread[t] = IF th.op = "defer_event" /\ th.read # NULL
                            THEN [th EXCEPT !.pc = "waiting"]
                            ELSE IdleThread]
        /\ UNCHANGED <<rows, nextRid, now, poller, work, fetched, tracker,
                       loop, policyCall, mergeCall, formatCall, webCall,
                       listener>>

NextLock ==
    \/ \E t \in Threads, method \in StoreMethods : CallStore(t, method)
    \/ \E t \in Threads : Acquire(t)
    \/ \E t \in Threads, e \in Events, s \in StoreServices, st \in Stages :
          Execute(t, e, s, st)
    \/ \E t \in Threads : Release(t)

\* The threads of the scheduler, of a worker and of the ingress in the
\* methods of the store.
SpecLock == Init /\ [][NextLock]_vars

\* ------------------------------------------------ per-source extraction
\* Peak accelerations are counted in units of 0.00001, the accelerations of
\* the ESM provider in whole percent of g.
\* Calculator.percent_g_to_cm_s2.
percent_g_to_cm_s2(percent_g) == percent_g * PercentG

Formatters == {"RRSM.extract_raw_stations", "RRSM.format_data",
               "ESM.extract_raw_stations"}

\* The station is skipped (continue, or appended to invalid_stations).
Discarded == [accepted |-> FALSE, pga |-> NULL]

Selected(pga) == [accepted |-> TRUE, pga |-> pga]

\* The channel loop of the RRSM formatter: the largest absolute pga among
\* the channels whose absolute pga is within the range, NULL when no channel
\* is (both bounds are inclusive here).
RECURSIVE BestInRange(_, _)
BestInRange(channels, best) ==
    IF channels = <<>> THEN best
    ELSE LET pga_val == Abs(Head(channels))
         IN  BestInRange(Tail(channels),
                IF /\ RRSM_PEAKMOTION_PGA_MIN <= pga_val
                   /\ pga_val <= RRSM_PEAKMOTION_PGA_MAX
                   /\ (best = NULL \/ pga_val > best)
                THEN pga_val ELSE best)

\* RRSMPeakMotionDataFormatter.extract_raw_stations for one station.
RRSM_extract_raw_stations(channels) ==
    LET best_pga == BestInRange(channels, NULL)
    IN  IF best_pga = NULL THEN Discarded ELSE Selected(best_pga)

\* RRSMPeakMotionDataFormatter.format_data for one station: after the channel
\* loop the station is discarded when its pga is at or beyond a bound.
RRSM_format_data(channels) ==
    LET pga == BestInRange(channels, NULL)
    IN  IF pga = NULL THEN Discarded
        ELSE IF pga <= RRSM_PEAKMOTION_PGA_MIN \/ pga >= RRSM_PEAKMOTION_PGA_MAX
             THEN Discarded
             ELSE Selected(pga)

\* The component loop of the ESM formatter: the largest acceleration, signed,
\* NULL standing for the -inf of a station without components.
RECURSIVE BestAcceleration(_, _, _)
BestAcceleration(components, found, best) ==
    IF components = <<>> THEN [found |-> found, acc |-> best]
    ELSE IF ~found \/ Head(components) > best
         THEN BestAcceleration(Tail(components), TRUE, Head(components))
         ELSE BestAcceleration(Tail(components), found, best)

\* ESMShakeMapDataFormatter.extract_raw_stations for one station.
ESM_extract_raw_stations(components) ==
    LET sel == BestAcceleration(components, FALSE, 0)
    IN  IF ~sel.found \/ sel.acc <= 0 THEN Discarded
        ELSE Selected(percent_g_to_cm_s2(sel.acc))

\* The peak values a channel of the RRSM provider can carry, around the two
\* bounds and of both signs, and the accelerations of the ESM provider.
ChannelValues(formatter) ==
    IF formatter = "ESM.extract_raw_stations"
    THEN {0 - 3, 0, 1, 3, 4}
    ELSE {0 - (RRSM_PEAKMOTION_PGA_MAX + 1), 0 - RRSM_PEAKMOTION_PGA_MAX, 0 - 1,
          0, RRSM_PEAKMOTION_PGA_MIN, RRSM_PEAKMOTION_PGA_MIN + 1,
          RRSM_PEAKMOTION_PGA_MAX - 1, RRSM_PEAKMOTION_PGA_MAX,
          RRSM_PEAKMOTION_PGA_MAX + 1}

ChannelLists(formatter) ==
    UNION {[1 .. n -> ChannelValues(formatter)] : n \in 0 .. MaxChannels}

InitExtract ==
    /\ \E f \in Formatters : \E c \in ChannelLists(f) :
          formatCall =
             [pc |-> "input", formatter |-> f, channels |-> c, station |-> Discarded]
    /\ tracker = SchedulerTracker
    /\ rows = <<>>
    /\ nextRid = 1
    /\ now = 0
    /\ poller = [p \in Pollers |-> IdlePoller]
    /\ work = <<>>
    /\ fetched = NoFetch
    /\ loop = RunningLoop
    /\ mutex = FreeMutex
    /\ policyCall = NoPolicyCall
    /\ mergeCall = NoMergeCall
    /\ webCall = NoWebCall
    /\ listener = NoAlert

\* The formatter handles the station and returns.
Extract(f) ==
    /\ formatCall.pc = "input"
    /\ formatCall.formatter = f
    /\ formatCall' = [formatCall EXCEPT !.pc = "extracted",
          !.station = CASE f = "RRSM.extract_raw_stations" ->
                               RRSM_extract_raw_stations(formatCall.channels)
                        [] f = "RRSM.format_data" ->
                               RRSM_format_data(formatCall.channels)
                        [] OTHER -> ESM_extract_raw_stations(formatCall.channels)]
    /\ UNCHANGED <<rows, nextRid, now, poller, work, fetched, tracker, loop,
                   mutex, policyCall, mergeCall, webCall, listener>>

NextExtract == \E f \in Formatters : Extract(f)

SpecExtract == InitExtract /\ [][NextExtract]_vars

\* ------------------------------------------------------------ listener
\* The methods class EventTracker defines.
EventTrackerMethods ==
    {"set_logger", "initialize_event", "get_due_events", "mark_completed",
     "mark_as_processing", "cleanup_expired", "close", "_db_update_event_fields",
     "get_all_pending_events", "get_event_meta", "mark_failed",
     "increment_retry_count", "query_by_priority", "register_new_schedule",
     "batch_register_from_policy", "refresh_metadata_after_emsc_update",
     "defer_event"}

FlynnRegions == {"WESTERN TURKEY", "GREECE"}

TargetRegions == {<<>>, <<"World">>, <<"Turkey">>, <<"italy", "GREECE">>}

Magnitudes == {3, 5}

MinMagnitudes == {0, 4}

\* str.lower() on the strings of the model.
lower(str) ==
    CASE str = "WESTERN TURKEY" -> "western turkey"
      [] str = "GREECE" -> "greece"
      [] str = "World" -> "world"
      [] str = "Turkey" -> "turkey"
      [] OTHER -> str

\* `target in region` on the strings of the model.
OccursIn(target, region) ==
    \/ target = region
    \/ target = "turkey" /\ region = "western turkey"

\* is_event_in_region: a target of all, world or the empty string lets every
\* event pass; otherwise a target must occur in the region of the event.
is_event_in_region(event, target_regions) ==
    \/ \E i \in DOMAIN target_regions :
          lower(target_regions[i]) \in {"all", "world", ""}
    \/ \E i \in DOMAIN target_regions :
          OccursIn(lower(target_regions[i]), lower(event.flynn_region))

\* is_magnitude_above_threshold
is_magnitude_above_threshold(event, min_magnitude) == event.mag >= min_magnitude

\* myprocessing, lines 83-117: the method of the tracker the message leads
\* to, NONE when a filter rejects it.
TrackerCall(info, target_regions, min_magnitude) ==
    IF ~is_event_in_region(info, target_regions) THEN NONE
    ELSE IF ~is_magnitude_above_threshold(info, min_magnitude) THEN NONE
    ELSE IF info.action = "create" THEN "register_event"
    ELSE IF info.action = "update" THEN "register_event_after_update"
    ELSE NONE

\* The listener is launched with its filters.
InitListener ==
    /\ \E targets \in TargetRegions, min \in MinMagnitudes :
          listener = [NoAlert EXCEPT !.target_regions = targets,
                                     !.min_magnitude = min]
    /\ tracker = NewTracker
    /\ rows = <<>>
    /\ nextRid = 1
    /\ now = 0
    /\ poller = [p \in Pollers |-> IdlePoller]
    /\ work = <<>>
    /\ fetched = NoFetch
    /\ loop = RunningLoop
    /\ mutex = FreeMutex
    /\ policyCall = NoPolicyCall
    /\ mergeCall = NoMergeCall
    /\ formatCall = NoFormatCall
    /\ webCall = NoWebCall

\* myprocessing(message): the filters are applied and the method of the
\* tracker is looked up. A name class EventTracker does not define raises
\* AttributeError before any argument reaches the store; the except clause
\* at line 119 logs it and the function returns.
MyProcessing(unid, action, region, mag) ==
    LET info == [unid |-> unid, action |-> action, flynn_region |-> region,
                 mag |-> mag, lastupdate |-> now]
        call == TrackerCall(info, listener.target_regions, listener.min_magnitude)
    IN  /\ listener.received < MaxAlerts
        /\ call = NONE \/ call \notin EventTrackerMethods
        /\ listener' = [listener EXCEPT
              !.received = @ + 1, !.last = info, !.decision = call,
              !.logged = IF call = NONE THEN @ ELSE @ + 1]
        /\ UNCHANGED <<rows, nextRid, now, poller, work, fetched, tracker, loop,
                       mutex, policyCall, mergeCall, formatCall, webCall>>

AlertActions == {"create", "update"}

NextListener ==
    \/ Tick
    \/ \E e \in Events, st \in Stages :
          RegisterNewSchedule(e, "RRSM", st, DefaultExpirationMinutes, "aware")
    \/ \E e \in Events, a \in AlertActions, r \in FlynnRegions, m \in Magnitudes :
          MyProcessing(e, a, r, m)

\* The listener on a store that a playback fills as well.
SpecListener == InitListener /\ [][NextListener]_vars

\* ------------------------------------------------------------- build_url
\* The keyword options of a call are a dict: a sequence of [key, value] with
\* distinct keys, in the order given. The URL is kept as its query options.
WebServices == {"ESMShakeMapWebService", "RRSMShakeMapWebService",
                "RRSMPeakMotionWebService", "EMSCFeltReportWebService"}

\* get_supported_options of each class.
get_supported_options(ws) ==
    CASE ws = "ESMShakeMapWebService" ->
             {"eventid", "catalog", "format", "flag", "encoding"}
      [] ws = "RRSMShakeMapWebService" -> {"eventid", "type"}
      [] ws = "RRSMPeakMotionWebService" -> {"eventid"}
      [] OTHER -> {"unids", "includeTestimonies"}

\* is_value_valid of each class: ESM checks catalog, format, encoding and
\* flag, EMSC checks includeTestimonies, the RRSM classes check nothing.
is_value_valid(ws, option, value) ==
    CASE ws = "ESMShakeMapWebService" ->
             /\ option = "catalog" => value \in {"ESM", "ISC", "USGS", "EMSC", "INGV"}
             /\ option = "format" => value \in {"event", "event_dat", "event_fault"}
             /\ option = "encoding" =>
                   value \in {"utf-8", "UTF-8", "us-ascii", "US-ASCII"}
             /\ option = "flag" => value \in {"0", "all"}
      [] ws = "EMSCFeltReportWebService" ->
             option = "includeTestimonies" => value \in {"true", "false"}
      [] OTHER -> TRUE

HasKey(options, key) == \E i \in DOMAIN options : options[i].key = key

ValueOf(options, key) ==
    options[CHOOSE i \in DOMAIN options : options[i].key = key].value

\* del options[key] / options.pop(key)
DelKey(options, key) == SelectSeq(options, LAMBDA o : o.key # key)

\* options[key] = value: in place when the key is there, at the end if not.
SetKey(options, key, value) ==
    IF HasKey(options, key)
    THEN [i \in DOMAIN options |->
            IF options[i].key = key THEN [key |-> key, value |-> value]
            ELSE options[i]]
    ELSE Append(options, [key |-> key, value |-> value])

Built(options) == [raised |-> NONE, query |-> options]

Raised(exception) == [raised |-> exception, query |-> <<>>]

\* BaseWebService.validate_options: the unsupported options are deleted,
\* then the first supported option with a value that is not valid raises.
validate_options(ws, options) ==
    LET kept == SelectSeq(options, LAMBDA o : o.key \in get_supported_options(ws))
    IN  IF \E i \in DOMAIN kept : ~is_value_valid(ws, kept[i].key, kept[i].value)
        THEN Raised("InvalidOptionValue")
        ELSE Built(kept)

\* EMSC build_url, lines 59-63: a variation of the keyword is renamed.
IncludeVariations == <<"includetestimonies", "IncludeTestimonies", "Includetestimonies">>

RECURSIVE RenameVariations(_, _)
RenameVariations(options, i) ==
    IF i > Len(IncludeVariations) THEN options
    ELSE IF HasKey(options, IncludeVariations[i])
         THEN RenameVariations(
                 SetKey(DelKey(options, IncludeVariations[i]), "includeTestimonies",
                        ValueOf(options, IncludeVariations[i])), i + 1)
         ELSE RenameVariations(options, i + 1)

\* The values of unids in the model: strings, a list and an integer.
IsString(value) == value \notin {"<list>", "<int>"}

\* EMSC build_url, lines 72-81: brackets are put around the string.
Bracketed(value) == IF value = "20201230_0000049" THEN "[20201230_0000049]" ELSE value

\* EMSC build_url, lines 68-87: unids[0] of the empty string raises
\* IndexError, a value that is neither string nor list InvalidOptionValue.
NormalizeUnids(options) ==
    IF ~HasKey(options, "unids") THEN Built(options)
    ELSE LET unids == ValueOf(options, "unids")
         IN  IF IsString(unids)
             THEN IF unids = "" THEN Raised("IndexError")
                  ELSE Built(SetKey(options, "unids", Bracketed(unids)))
             ELSE IF unids = "<list>" THEN Built(options)
             ELSE Raised("InvalidOptionValue")

\* build_url of each class; the three others differ in the path only.
build_url(ws, options) ==
    IF ws = "EMSCFeltReportWebService"
    THEN LET normal == NormalizeUnids(RenameVariations(options, 1))
         IN  IF normal.raised # NONE THEN normal
             ELSE validate_options(ws, normal.query)
    ELSE validate_options(ws, options)

\* The options a caller passes and their values.
OptionNames ==
    {"eventid", "catalog", "format", "unids", "includeTestimonies",
     "includetestimonies", "IncludeTestimonies", "uknown_flag"}

OptionValues(key) ==
    CASE key = "catalog" -> {"ESM", "Unknown"}
      [] key = "unids" -> {"20201230_0000049", "[20201230_0000049]", "", "<list>", "<int>"}
      [] key \in {"includeTestimonies", "includetestimonies"} -> {"true", "maybe"}
      [] key = "IncludeTestimonies" -> {"false"}
      [] key = "format" -> {"event_dat"}
      [] key = "eventid" -> {"test_id"}
      [] OTHER -> {"not_a_valid_value"}

OptionItems == UNION {{[key |-> k, value |-> v] : v \in OptionValues(k)} : k \in OptionNames}

OptionDicts ==
    {o \in UNION {[1 .. n -> OptionItems] : n \in 0 .. MaxOptions} :
        \A i, j \in DOMAIN o : i # j => o[i].key # o[j].key}

InitBuildUrl ==
    /\ \E ws \in WebServices, options \in OptionDicts :
          webCall = [pc |-> "input", ws |-> ws, options |-> options,
                     url |-> Built(<<>>)]
    /\ tracker = NewTracker
    /\ rows = <<>>
    /\ nextRid = 1
    /\ now = 0
    /\ poller = [p \in Pollers |-> IdlePoller]
    /\ work = <<>>
    /\ fetched = NoFetch
    /\ loop = RunningLoop
    /\ mutex = FreeMutex
    /\ policyCall = NoPolicyCall
    /\ mergeCall = NoMergeCall
    /\ formatCall = NoFormatCall
    /\ listener = NoAlert

\* ws.build_url(**options) is called and returns or raises.
BuildUrl(ws) ==
    /\ webCall.pc = "input"
    /\ webCall.ws = ws
    /\ webCall' = [webCall EXCEPT !.pc = "built",
                                  !.url = build_url(ws, webCall.options)]
    /\ UNCHANGED <<rows, nextRid, now, poller, work, fetched, tracker, loop,
                   mutex, policyCall, mergeCall, formatCall, listener>>

NextBuildUrl == \E ws \in WebServices : BuildUrl(ws)

SpecBuildUrl == InitBuildUrl /\ [][NextBuildUrl]_vars

\* ------------------------------------------------------------ properties
RowKey(r) == <<r.event_id, r.service, r.current_delay_time>>

WorkKey(w) == <<work[w].event_id, work[w].service, work[w].meta.current_delay_time>>

Finished(w) == work[w].pc \in {"done", "escaped"}

\* C1: with two schedulers running run_once against the same store, a due
\* row is handed to one worker only: no two schedulers submit work for the
\* entry read from the same row.
C1_OneWorkerPerDueRow ==
    \A w1 \in DOMAIN work, w2 \in DOMAIN work :
        work[w1].src = work[w2].src => work[w1].by = work[w2].by

\* C2: every row in status PROCESSING is held: a submitted work item for its
\* key has not finished, or the scheduler that has just claimed it is about
\* to submit it.
BeingDispatched(r) ==
    \E p \in Pollers :
        /\ poller[p].pc = "lookup"
        /\ poller[p].due[poller[p].i].src.rid = r.rid

C2_ProcessingRowIsHeld ==
    \A i \in DOMAIN rows :
        rows[i].status = STATUS_PROCESSING =>
            \/ \E w \in DOMAIN work : WorkKey(w) = RowKey(rows[i]) /\ ~Finished(w)
            \/ BeingDispatched(rows[i])
RowIds == 1 .. MaxRows

HasRow(rid) == \E i \in DOMAIN rows : rows[i].rid = rid

RowOf(rid) == rows[CHOOSE i \in DOMAIN rows : rows[i].rid = rid]

\* C3: a row claimed by the scheduler does not stay PROCESSING for ever: it
\* becomes COMPLETED, INCOMPLETE or PENDING again (or is purged).
Processing(rid) == HasRow(rid) /\ RowOf(rid).status = STATUS_PROCESSING

C3_ProcessingEventuallyResolved ==
    \A rid \in RowIds : Processing(rid) ~> ~Processing(rid)

\* C4: the store holds at most one row per composite key
\* (event_id, service, current_delay_time).
C4_KeyUnique ==
    \A i \in DOMAIN rows, j \in DOMAIN rows :
        RowKey(rows[i]) = RowKey(rows[j]) => i = j

\* C5: when every pipeline run of an RRSM stage has failed and nothing is
\* left to run for it (no work item of its series is unfinished, no
\* scheduler holds an entry of the series, the row is not PENDING), the row
\* is INCOMPLETE with retry_count = 3.
RunsOf(r) ==
    {w \in DOMAIN work : WorkKey(w) = RowKey(r) /\ work[w].src = r.rid}

SeriesIdle(r) ==
    /\ \A w \in DOMAIN work : InSeries(r, work[w].event_id, work[w].service) => Finished(w)
    /\ \A p \in Pollers : \A k \in DOMAIN poller[p].due :
          ~InSeries(r, poller[p].due[k].event_id, poller[p].due[k].service)

C5_RetriedUntilLimit ==
    \A i \in DOMAIN rows :
        (/\ rows[i].service = "RRSM"
         /\ RunsOf(rows[i]) # {}
         /\ \A w \in RunsOf(rows[i]) : work[w].result = "failed"
         /\ SeriesIdle(rows[i])
         /\ rows[i].status # STATUS_PENDING)
        => rows[i].status = STATUS_INCOMPLETE /\ rows[i].retry_count = MaxRetries

\* C6: the step that ends a failed pipeline run ends it inside the worker
\* (nothing escapes _handle_event) and leaves the row of the worker's key
\* either eligible for dispatch again with last_error set, or INCOMPLETE.
EndsFailedRun(w) ==
    /\ w \in DOMAIN work
    /\ ~Finished(w)
    /\ work'[w].pc \in {"done", "escaped"}
    /\ work'[w].result # "succeeded"

C6_FailureTranslated ==
    [][\A w \in WorkIds : EndsFailedRun(w) =>
          /\ work'[w].pc = "done"
          /\ \A j \in DOMAIN rows' :
                RowKey(rows'[j]) = WorkKey(w) =>
                    \/ rows'[j].status = STATUS_PENDING /\ rows'[j].last_error # NONE
                    \/ rows'[j].status = STATUS_INCOMPLETE]_vars

\* C7: a row changes status only along PENDING -> PROCESSING,
\* PROCESSING -> COMPLETED, PROCESSING -> INCOMPLETE and PROCESSING -> PENDING
\* with a later next_query_time; COMPLETED and INCOMPLETE are final.
LifecycleEdges ==
    {<<STATUS_PENDING, STATUS_PROCESSING>>, <<STATUS_PROCESSING, STATUS_COMPLETED>>,
     <<STATUS_PROCESSING, STATUS_INCOMPLETE>>, <<STATUS_PROCESSING, STATUS_PENDING>>}

C7_LifecycleEdgesOnly ==
    [][\A i \in DOMAIN rows, j \in DOMAIN rows' :
          (rows[i].rid = rows'[j].rid /\ rows[i].status # rows'[j].status) =>
              /\ <<rows[i].status, rows'[j].status>> \in LifecycleEdges
              /\ rows'[j].status = STATUS_PENDING =>
                    rows'[j].next_query_time > rows[i].next_query_time]_vars

\* C8: get_due_events returns exactly the PENDING rows with
\* next_query_time <= now (of the given service, when one is given), and each
\* returned entry identifies one row by its full key.
DueRids(service) ==
    {rows[i].rid : i \in {k \in DOMAIN rows : IsDue(rows[k], now, service)}}

EntryRows(en) ==
    {i \in DOMAIN rows : \A f \in DOMAIN en \ {"src"} : rows[i][f] = en[f]}

C8_FetchDueExact ==
    [][\A f \in ServiceFilters : GetDueEvents(f) =>
          /\ {fetched'.result[k].src.rid : k \in DOMAIN fetched'.result} = DueRids(f)
          /\ Len(fetched'.result) = Cardinality(DueRids(f))
          /\ \A k \in DOMAIN fetched'.result :
                Cardinality(EntryRows(fetched'.result[k])) = 1]_vars

\* C9: the due list is sorted by priority descending, then next_query_time
\* ascending, rows with equal sort keys in insertion order, and run_once
\* claims and submits the rows in that order: its k-th claim marks the k-th
\* row of the list and no other, and the work it submits then is for that row.
SortedStable(due) ==
    \A a \in DOMAIN due, b \in DOMAIN due :
        a < b => /\ ~SortsBefore(due[b].src, due[a].src)
                 /\ SortsBefore(due[a].src, due[b].src) \/ due[a].src.rid < due[b].src.rid

C9_OrderedDispatch ==
    [][\A p \in Pollers :
          /\ Fetch(p) => SortedStable(poller'[p].due)
          /\ Claim(p) =>
                \A j \in DOMAIN rows :
                    rows'[j] # rows[j] => rows[j].rid = poller[p].due[poller[p].i].src.rid
          /\ Submit(p) =>
                work'[Len(work')].meta.current_delay_time =
                    poller[p].due[poller[p].i].src.current_delay_time]_vars

\* C10: a worker's store updates change only the row of its own key.
C10_WorkerTouchesOwnRowOnly ==
    [][\A w \in WorkIds : WorkerStep(w) =>
          /\ Len(rows') = Len(rows)
          /\ \A j \in DOMAIN rows :
                RowKey(rows[j]) # WorkKey(w) => rows'[j] = rows[j]]_vars

\* C11: a batch registration for an event that has no rows, with no other
\* registration under way, creates one row per delay of the policy, row i
\* with current_delay = delays[i] and next_delay = delays[i+1], and exactly
\* one created row has next_delay = null.
ExpectedStages(delays) ==
    [i \in DOMAIN delays |->
        <<delays[i], IF i + 1 <= Len(delays) THEN delays[i + 1] ELSE NULL>>]

FinalCreated(cl) == {k \in DOMAIN cl.created : cl.created[k][2] = NULL}

C11_BatchCreatesSchedule ==
    \A c \in Callers :
        LET cl == tracker.call[c]
        IN  (cl.pc = "returned" /\ cl.fresh /\ tracker.calls = 1) =>
                /\ cl.created = ExpectedStages(PolicyDelays(cl.policy))
                /\ Cardinality(FinalCreated(cl)) = 1

\* C12: every (event_id, service) series that has a row has exactly one row
\* with next_delay = null.
FinalRows(e, s) == {r \in SeriesRows(rows, e, s) : r.next_delay_time = NULL}

C12_OneFinalRowPerSeries ==
    \A e \in Events, s \in Services \cup SERVICE_POLICIES :
        HasMeta(rows, e, s) => Cardinality(FinalRows(e, s)) = 1

\* C13: when two calls of batch_register_from_policy for the same event and
\* policy have both returned and no row was purged, the series holds one
\* row per delay, and each call logged one warning per insert of its own
\* that met a conflict.
SameBatch(c1, c2) ==
    /\ c1 # c2
    /\ tracker.call[c1].pc = "returned" /\ tracker.call[c2].pc = "returned"
    /\ tracker.call[c1].event_id = tracker.call[c2].event_id
    /\ tracker.call[c1].policy = tracker.call[c2].policy

NothingPurged == Len(rows) = nextRid - 1

C13_ConcurrentBatchesRowCount ==
    \A c1 \in Callers, c2 \in Callers :
        (SameBatch(c1, c2) /\ NothingPurged) =>
            Cardinality(SeriesRows(rows, tracker.call[c1].event_id, tracker.call[c1].policy))
                = Len(PolicyDelays(tracker.call[c1].policy))

C13_ConcurrentBatches ==
    /\ C13_ConcurrentBatchesRowCount
    /\ \A c1 \in Callers, c2 \in Callers :
          (SameBatch(c1, c2) /\ NothingPurged) =>
              tracker.call[c1].warned = tracker.call[c1].conflicts

\* C14: an Add whose composite key is already in the store leaves the store
\* as it was (no update of the existing row, no new row).
KeyExists(e, s, delay) ==
    \E i \in DOMAIN rows : RowKey(rows[i]) = <<e, s, delay>>

C14_DuplicateAddIsNoOp ==
    [][/\ \A e \in Events, s \in StoreServices, st \in Stages, f \in {"aware", "fraction"} :
            (RegisterNewSchedule(e, s, st, 0, f) /\ KeyExists(e, s, st[1]))
                => rows' = rows
       /\ \A e \in Events, ss \in {<<"RRSM">>, <<"RRSM", "ESM">>} :
            (InitializeEvent(e, ss) /\ \A k \in DOMAIN ss : KeyExists(e, ss[k], NULL))
                => rows' = rows]_vars

\* C15: when refresh_metadata_after_emsc_update returns, every row of the
\* series that was in the store when the call began and is neither COMPLETED
\* nor INCOMPLETE has the last_update_time the call was given.
NonTerminal(r) == r.status \notin {STATUS_COMPLETED, STATUS_INCOMPLETE}

RefreshTargets ==
    {r \in SeriesRows(rows, tracker.refresh.event_id, tracker.refresh.service) :
        r.rid < tracker.refresh.before}

C15_RefreshReachesNonTerminalRows ==
    tracker.refresh.pc = "returned" =>
        \A r \in RefreshTargets :
            NonTerminal(r) => r.last_update_time = tracker.refresh.fields.last_update_time

\* C16: no step of refresh_metadata_after_emsc_update changes the status,
\* next_query_time, current_delay, next_delay or retry_count of a row, adds
\* or removes a row, or changes a row of another (event_id, service) series,
\* whatever the workers have done before it and do after it.
RefreshStep ==
    \/ \E e \in Events, o \in BOOLEAN : RefreshStart(e, "RRSM", o)
    \/ RefreshUpdate
    \/ RefreshReturn

ScheduleFields ==
    {"status", "next_query_time", "current_delay_time", "next_delay_time", "retry_count"}

C16_RefreshFrame ==
    [][RefreshStep =>
          /\ Len(rows') = Len(rows)
          /\ \A i \in DOMAIN rows :
                /\ \A f \in ScheduleFields : rows'[i][f] = rows[i][f]
                /\ ~InSeries(rows[i], tracker.refresh.event_id, tracker.refresh.service)
                      => rows'[i] = rows[i]]_vars

\* A refresh has rewritten a row of a series that has a worker in its
\* pipeline run, with a row of another series in the store.
C16_Witness ==
    /\ tracker.refresh.pc = "returned"
    /\ \E r \in RefreshTargets :
          /\ r.last_update_time = tracker.refresh.fields.last_update_time
          /\ r.last_modified > r.origin_time
    /\ \E w \in DOMAIN work :
          /\ work[w].pc = "running"
          /\ work[w].event_id = tracker.refresh.event_id
          /\ work[w].service = tracker.refresh.service
    /\ \E i \in DOMAIN rows :
          ~InSeries(rows[i], tracker.refresh.event_id, tracker.refresh.service)

\* C17: a step of refresh_metadata_after_emsc_update leaves every row that
\* was COMPLETED when the call began entirely unchanged.
C17_CompletedRowsUntouched ==
    [][RefreshStep =>
          \A i \in DOMAIN rows :
              rows[i].rid \in tracker.refresh.completed => rows'[i] = rows[i]]_vars

\* C18: no step lowers the retry_count of a row.
C18_RetryCountNeverDecreases ==
    [][\A i \in DOMAIN rows, j \in DOMAIN rows' :
          rows[i].rid = rows'[j].rid => rows'[j].retry_count >= rows[i].retry_count]_vars

\* C19: every row has next_query_time >= origin_time.
C19_QueryNotBeforeOrigin ==
    \A i \in DOMAIN rows :
        (rows[i].next_query_time # NULL /\ rows[i].origin_time # NULL)
            => rows[i].next_query_time >= rows[i].origin_time

\* C20: a step that changes a field of a row sets the row's last_modified
\* to the instant of the step.
C20_LastModifiedOnMutation ==
    [][\A i \in DOMAIN rows, j \in DOMAIN rows' :
          (rows[i].rid = rows'[j].rid /\ rows'[j] # rows[i])
              => rows'[j].last_modified = now]_vars

\* The rows with expiration_time <= now.
Expired(r) == r.expiration_time # NULL /\ r.expiration_time <= now

\* The rows a cleanup removes and the rows it keeps.
CleanupExact ==
    /\ \A i \in DOMAIN rows :
          Expired(rows[i]) <=> ~(\E j \in DOMAIN rows' : rows'[j].rid = rows[i].rid)
    /\ \A j \in DOMAIN rows' : \E i \in DOMAIN rows : rows[i] = rows'[j]
    /\ Len(rows') <= Len(rows)

\* C21: a cleanup removes exactly the rows with expiration_time <= now,
\* whatever their status, leaves every other row as it was, and a lookup of
\* the key of a removed row finds nothing afterwards.
C21_CleanupThenGetNull ==
    [][CleanupExpired =>
          /\ CleanupExact
          /\ \A i \in DOMAIN rows :
                Expired(rows[i]) => ~HasMeta(rows', rows[i].event_id, rows[i].service)]_vars

\* A cleanup leaves no expired row behind, and no step of a worker adds a
\* row to the store.
PurgedRowStaysGone ==
    /\ CleanupExpired => \A j \in DOMAIN rows' : ~Expired(rows'[j])
    /\ \A w \in WorkIds : WorkerStep(w) =>
          \A j \in DOMAIN rows' : \E i \in DOMAIN rows : rows[i].rid = rows'[j].rid

\* The entry run_once is at was read from a row that had not expired at the
\* poll and that a cleanup has purged since.
PurgedSincePoll(p) ==
    LET src == poller[p].due[poller[p].i].src
    IN  src.expiration_time > poller[p].polled /\ ~HasRow(src.rid)

\* C22: a due row that expired after the poll returned it and that a
\* cleanup purged before its dispatch is skipped (no work is submitted for
\* its entry); a cleanup leaves no expired row behind, PROCESSING or not, and
\* no update of a worker brings a purged row back.
C22_PurgedRowIsSkipped ==
    [][/\ PurgedRowStaysGone
       /\ \A p \in Pollers : Submit(p) => ~PurgedSincePoll(p)]_vars

C22_PurgedRowStaysGone == [][PurgedRowStaysGone]_vars

\* The instant a row is due, or the present one when that has passed.
DueInstant(r) == IF r.next_query_time > now THEN r.next_query_time ELSE now

\* C23: a restart loses no pending work: the store is as it was, and every
\* row that was PENDING, or PROCESSING for a worker that ended with the
\* process, is one the scheduler's poll returns once the row is due.
C23_RestartKeepsPendingWork ==
    [][Restart =>
          /\ rows' = rows
          /\ \A i \in DOMAIN rows :
                (/\ rows[i].status \in {STATUS_PENDING, STATUS_PROCESSING}
                 /\ rows[i].next_query_time # NULL)
                    => IsDue(rows'[i], DueInstant(rows'[i]), NONE)]_vars

\* A restart keeps the store, and the rows that were PENDING stay eligible.
C23_RestartKeepsPendingRows ==
    [][Restart =>
          /\ rows' = rows
          /\ \A i \in DOMAIN rows :
                (rows[i].status = STATUS_PENDING /\ rows[i].next_query_time # NULL)
                    => IsDue(rows'[i], DueInstant(rows'[i]), NONE)]_vars

\* The while loop of run_forever is left in this step.
LoopEnds == LoopRunning /\ loop'.pc # "running"

\* C24: an error raised by a polling cycle is logged and the loop goes on
\* polling; only an interrupt ends the loop.
C24_LoopSurvivesErrors ==
    [][/\ PollRaises(Scheduler) => (loop'.logged = loop.logged + 1 /\ loop'.pc = "running")
       /\ LoopEnds => Interrupt(Scheduler)]_vars

\* C25: the store is closed last: while the pool has not been shut down the
\* connection is open, and no statement is issued on the closed connection.
C25_StoreClosedLast ==
    /\ loop.store = "closed" => loop.executor = "shutdown"
    /\ loop.late = 0

\* No statement is issued on the closed connection.
C25_NoCallOnClosedStore == loop.late = 0

\* FinDerExecutable._prepare_workspace: the working directory of a pipeline
\* run is <output root>/<event_id>; finder_file.config, data_0 and temp_data
\* are inside it.
working_directory(w) == <<"output-root-folder", work[w].event_id>>

\* C26: no two workers that are in their pipeline run at the same time use
\* the same working directory.
C26_WorkingDirectoryOwned ==
    \A w1 \in DOMAIN work, w2 \in DOMAIN work :
        (w1 # w2 /\ work[w1].pc = "running" /\ work[w2].pc = "running")
            => working_directory(w1) # working_directory(w2)

\* A thread is inside a `with self._lock` block of the store.
InStore(t) == mutex.thread[t].pc \in {"locked", "executed"}

WithinSchedule(elapsed) ==
    /\ \E i \in DOMAIN QUERY_SCHEDULE_MINUTES :
          Abs(elapsed - HalfMinutes(QUERY_SCHEDULE_MINUTES[i]))
              <= HalfMinutes(ALLOWED_DRIFT_MINUTES)
    /\ elapsed <= HalfMinutes(MaxScheduled + GraceMinutes)

\* C28: for every elapsed time, should_query of the RRSM policy gives true
\* exactly when a scheduled delay is within the drift of the elapsed time and
\* the elapsed time is at most the last delay plus the grace.
C28_ShouldQueryWithinDrift ==
    policyCall.should_query.called =>
        /\ ~policyCall.should_query.raised
        /\ policyCall.should_query.value <=> WithinSchedule(policyCall.elapsed)

\* The smallest scheduled delay strictly greater than the elapsed time, NULL
\* when there is none.
NextScheduled(elapsed) ==
    IF Ahead(elapsed) = {} THEN NULL
    ELSE QUERY_SCHEDULE_MINUTES[CHOOSE i \in Ahead(elapsed) :
            \A k \in Ahead(elapsed) :
                QUERY_SCHEDULE_MINUTES[i] <= QUERY_SCHEDULE_MINUTES[k]]

\* C29: get_next_query_delay_minutes gives the smallest scheduled delay that
\* is strictly greater than the elapsed minutes, and null when there is none.
C29_NextDelayIsNextScheduled ==
    policyCall.next_delay.called =>
        /\ ~policyCall.next_delay.raised
        /\ policyCall.next_delay.value = NextScheduled(policyCall.elapsed)

\* The merge keys of the records of a list.
Keys(data) == {_make_key(data[i]) : i \in DOMAIN data}

\* The positions of a list whose record has the key.
WithKey(data, key) == {i \in DOMAIN data : _make_key(data[i]) = key}

\* The last record of the list with the key.
LastWithKey(data, key) ==
    data[CHOOSE i \in WithKey(data, key) : \A k \in WithKey(data, key) : k <= i]

\* C30: for a key that occurs in both lists the merged output holds the ESM
\* record of the key (the last one the ESM list has for it) and no RRSM
\* record, and the output has one record for each distinct key of the two
\* lists.
C30_MergeEsmPriority ==
    mergeCall.pc = "merged" =>
        LET A == mergeCall.rrsm_data
            B == mergeCall.esm_data
            out == mergeCall.merged
        IN  /\ \A key \in Keys(A) \cap Keys(B) :
                  \A j \in WithKey(out, key) :
                      out[j] = LastWithKey(B, key) /\ out[j].source = "ESM"
            /\ \A key \in Keys(A) \cup Keys(B) : Cardinality(WithKey(out, key)) = 1
            /\ Len(out) = Cardinality(Keys(A) \cup Keys(B))

\* A merge of lists that share a key keyed by coordinates, with records
\* that differ in pga and latitude, and with a key only the RRSM list has.
C30_Witness ==
    /\ mergeCall.pc = "merged"
    /\ \E key \in Keys(mergeCall.rrsm_data) \cap Keys(mergeCall.esm_data) :
          /\ key.sncl = <<>>
          /\ LastWithKey(mergeCall.rrsm_data, key).pga
                > LastWithKey(mergeCall.esm_data, key).pga
          /\ LastWithKey(mergeCall.rrsm_data, key).latitude
                # LastWithKey(mergeCall.esm_data, key).latitude
    /\ Keys(mergeCall.rrsm_data) \ Keys(mergeCall.esm_data) # {}
    /\ Len(mergeCall.merged) = 2

\* C31: merging the merged list with an empty list gives the same list, the
\* same records in the same order, also when records have equal pga.
C31_MergeIdempotent ==
    mergeCall.pc = "remerged" => mergeCall.remerged = mergeCall.merged

\* A second merge of a list of three records of which two have equal pga.
C31_Witness ==
    /\ mergeCall.pc = "remerged"
    /\ Len(mergeCall.merged) = 3
    /\ \E i, j \in DOMAIN mergeCall.merged :
          i # j /\ mergeCall.merged[i].pga = mergeCall.merged[j].pga
    /\ mergeCall.remerged = mergeCall.merged

\* The peak acceleration of a channel as the formatter takes it: the absolute
\* value for the RRSM provider, the converted acceleration for ESM.
ChannelPga(formatter, value) ==
    IF formatter = "ESM.extract_raw_stations"
    THEN percent_g_to_cm_s2(value) ELSE Abs(value)

InPgaRange(pga) ==
    RRSM_PEAKMOTION_PGA_MIN <= pga /\ pga <= RRSM_PEAKMOTION_PGA_MAX

\* C32: in each of the three formatters a station comes out exactly when one
\* of its channels has a pga within [PGA_MIN, PGA_MAX], the bounds included:
\* a channel at a bound is accepted, channels strictly outside are rejected.
C32_PgaBoundsInclusive ==
    formatCall.pc = "extracted" =>
        (formatCall.station.accepted <=>
            \E i \in DOMAIN formatCall.channels :
                InPgaRange(ChannelPga(formatCall.formatter, formatCall.channels[i])))

\* C33: a run that found the engine binary missing, not a regular file or
\* not executable produced no solution, and when its worker has returned the
\* row it was dispatched for is marked INCOMPLETE.
C33_MissingEngineIsFatal ==
    \A w \in DOMAIN work :
        work[w].engine_missing =>
            /\ work[w].result = "failed"
            /\ work[w].pc = "done" =>
                  \E i \in DOMAIN rows :
                      /\ rows[i].rid = work[w].src
                      /\ rows[i].status = STATUS_INCOMPLETE

\* The rows of the RRSM series of the event of a message.
AlertRows(rs, info) == {i \in DOMAIN rs : InSeries(rs[i], info.unid, "RRSM")}

\* C34: a message that passes both filters with action create leaves one row
\* for each scheduled delay of the RRSM policy, PENDING when the message
\* created it; one with action update leaves the number of rows as it was and
\* the last_update_time of the rows of the series that are not COMPLETED at
\* that of the message; a message a filter rejects leaves the store as it was.
C34_AlertRegistersOrRefreshes ==
    [][listener'.received = listener.received + 1 =>
        LET info == listener'.last
            passes == /\ is_event_in_region(info, listener.target_regions)
                      /\ is_magnitude_above_threshold(info, listener.min_magnitude)
        IN  /\ (passes /\ info.action = "create") =>
                  \A k \in DOMAIN PolicyDelays("RRSM") :
                      \E i \in AlertRows(rows', info) :
                          /\ rows'[i].current_delay_time = PolicyDelays("RRSM")[k]
                          /\ rows'[i].rid >= nextRid => rows'[i].status = STATUS_PENDING
            /\ (passes /\ info.action = "update") =>
                  /\ Len(rows') = Len(rows)
                  /\ \A i \in AlertRows(rows', info) :
                        rows'[i].status # STATUS_COMPLETED =>
                            rows'[i].last_update_time = info.lastupdate
            /\ ~passes => rows' = rows]_vars

\* The part of C34 that holds: a rejected message leaves the store as it was.
C34_RejectedAlertChangesNothing ==
    [][(listener'.received = listener.received + 1 /\ listener'.decision = NONE)
          => rows' = rows]_vars

OptionKeys(options) == [i \in DOMAIN options |-> options[i].key]

\* The options of the call that the class supports, in the order given.
SupportedPassed(ws, options) ==
    SelectSeq(options, LAMBDA o : o.key \in get_supported_options(ws))

\* C35: build_url raises InvalidOptionValue when a supported option that was
\* passed has a value that is not allowed; otherwise it raises nothing and
\* the URL has exactly the supported options that were passed, in the order
\* given, so that no unsupported option appears in it or makes it raise.
C35_BuildUrlKeepsSupported ==
    webCall.pc = "built" =>
        LET kept == SupportedPassed(webCall.ws, webCall.options)
        IN  IF \E i \in DOMAIN kept :
                  \/ ~is_value_valid(webCall.ws, kept[i].key, kept[i].value)
                  \/ kept[i].key = "unids" /\ kept[i].value = "<int>"
            THEN webCall.url.raised = "InvalidOptionValue"
            ELSE /\ webCall.url.raised = NONE
                 /\ OptionKeys(webCall.url.query) = OptionKeys(kept)

\* The work items submitted for a row of the store.
DispatchedFor(r) == {w \in DOMAIN work : work[w].src = r.rid}

\* C36: a row without next_delay is dispatched at most once, it is COMPLETED
\* while the pipeline of its worker runs, and it is COMPLETED only when a
\* worker was dispatched for it, so that the pipeline runs once for it.
C36_FinalStageRunsOnce ==
    \A i \in DOMAIN rows :
        rows[i].next_delay_time = NULL =>
            /\ Cardinality(DispatchedFor(rows[i])) <= 1
            /\ \A w \in DispatchedFor(rows[i]) :
                  work[w].pc = "running" => rows[i].status = STATUS_COMPLETED
            /\ rows[i].status = STATUS_COMPLETED => DispatchedFor(rows[i]) # {}

\* The part of C36 that holds with one scheduler: at most one dispatch.
C36_FinalStageDispatchedOnce ==
    \A i \in DOMAIN rows :
        rows[i].next_delay_time = NULL => Cardinality(DispatchedFor(rows[i])) <= 1

\* ------------------------------------------- failure handling of a run
\* A stage of an RRSM series that is due for dispatch after k runs of the
\* series have failed: increment_retry_count reaches every row of the
\* series, so a row that was never dispatched carries the failures of the
\* stages before it.
InitRetry ==
    /\ \E st \in Stages, k \in 0 .. MaxRetries :
          rows = <<Overwrite(
                     add_event(<<>>, 1, "e1", <<"RRSM">>, AlertAt(0), 0,
                               DefaultExpirationMinutes, st[1], st[2],
                               [time |-> st[1], format |-> "aware"])[1],
                     [retry_count |-> k])>>
    /\ nextRid = 2
    /\ now = 0
    /\ tracker = SchedulerTracker
    /\ poller = [p \in Pollers |-> IdlePoller]
    /\ work = <<>>
    /\ fetched = NoFetch
    /\ loop = RunningLoop
    /\ mutex = FreeMutex
    /\ policyCall = NoPolicyCall
    /\ mergeCall = NoMergeCall
    /\ formatCall = NoFormatCall
    /\ webCall = NoWebCall
    /\ listener = NoAlert

\* _handle_event, line 160: a call of the tracker inside the try block
\* raises (sqlite3.OperationalError while the listener's process holds the
\* lock of the database file, for one) before it has written anything; the
\* outer handler takes over.
WorkerHandlingRaises(w) ==
    /\ w \in DOMAIN work
    /\ AtStoreCall(w)
    /\ work' = [work EXCEPT ![w].pc = "handler", ![w].retry = 0]
    /\ UNCHANGED <<rows, nextRid, now, poller, fetched, tracker, loop, mutex,
                   policyCall, mergeCall, formatCall, webCall, listener>>

\* _handle_event, lines 161-162: increment_retry_count once more; its read.
WorkerHandlerIncRead(w) ==
    /\ w \in DOMAIN work
    /\ work[w].pc = "handler"
    /\ work' = IF HasMeta(rows, work[w].event_id, work[w].service)
               THEN [work EXCEPT ![w].pc = "handler_write",
                        ![w].retry = get_event_meta(rows, work[w].event_id,
                                         work[w].service).retry_count + 1]
               ELSE [work EXCEPT ![w].pc = "handler_decide"]
    /\ UNCHANGED <<rows, nextRid, now, poller, fetched, tracker, loop, mutex,
                   policyCall, mergeCall, formatCall, webCall, listener>>

\* _handle_event, line 162: the write of increment_retry_count.
WorkerHandlerIncWrite(w) ==
    /\ w \in DOMAIN work
    /\ work[w].pc = "handler_write"
    /\ rows' = _update_event_fields(rows, work[w].event_id, work[w].service,
                    [retry_count |-> work[w].retry])
    /\ work' = [work EXCEPT ![w].pc = "handler_decide", ![w].retry = 0]
    /\ UNCHANGED <<nextRid, now, poller, fetched, tracker, loop, mutex,
                   policyCall, mergeCall, formatCall, webCall, listener>>

\* _handle_event, lines 164-168: the policy is asked with the metadata read
\* at dispatch; last_error takes the text of the exception.
WorkerHandlerRetry(w) ==
    /\ w \in DOMAIN work
    /\ work[w].pc = "handler_decide"
    /\ should_retry_on_failure(work[w].policy, work[w].meta)
    /\ rows' = _update_event_fields(rows, work[w].event_id, work[w].service,
                    [last_error |-> "exception"])
    /\ work' = [work EXCEPT ![w].pc = "done"]
    /\ UNCHANGED <<nextRid, now, poller, fetched, tracker, loop, mutex,
                   policyCall, mergeCall, formatCall, webCall, listener>>

\* _handle_event, lines 169-176.
WorkerHandlerMarkFailed(w) ==
    /\ w \in DOMAIN work
    /\ work[w].pc = "handler_decide"
    /\ ~should_retry_on_failure(work[w].policy, work[w].meta)
    /\ rows' = mark_failed(rows, work[w].event_id, work[w].service, now,
                    "Retry limit reached. Final error: exception")
    /\ work' = [work EXCEPT ![w].pc = "done"]
    /\ UNCHANGED <<nextRid, now, poller, fetched, tracker, loop, mutex,
                   policyCall, mergeCall, formatCall, webCall, listener>>

NextRetry ==
    \/ Tick
    \/ Fetch(Scheduler)
    \/ Claim(Scheduler)
    \/ Submit(Scheduler)
    \/ \E w \in WorkIds : WorkerStep(w)
    \/ \E w \in WorkIds : WorkerHandlingRaises(w)
    \/ \E w \in WorkIds : WorkerHandlerIncRead(w)
    \/ \E w \in WorkIds : WorkerHandlerIncWrite(w)
    \/ \E w \in WorkIds : WorkerHandlerRetry(w)
    \/ \E w \in WorkIds : WorkerHandlerMarkFailed(w)

\* One dispatch of one row, with the outer handler of _handle_event.
SpecRetry == InitRetry /\ [][NextRetry]_vars

\* C37: each failed pipeline run increases the stored retry_count of its row
\* by exactly 1, on every failure path of the worker, and the decision that
\* follows (retry, or INCOMPLETE at the limit) is the policy's answer on the
\* incremented count.
C37_FailedRunIncrementsOnce ==
    \A w \in DOMAIN work :
        work[w].result = "failed" /\ work[w].pc = "done" =>
            \A i \in DOMAIN rows :
                rows[i].rid = work[w].src =>
                    /\ rows[i].retry_count = work[w].meta.retry_count + 1
                    /\ rows[i].status = STATUS_INCOMPLETE
                         <=> ~should_retry_on_failure(work[w].policy, rows[i])

\* The first half of C37 alone, and the second half alone.
C37_IncrementedByOne ==
    \A w \in DOMAIN work :
        work[w].result = "failed" /\ work[w].pc = "done" =>
            \A i \in DOMAIN rows :
                rows[i].rid = work[w].src =>
                    rows[i].retry_count = work[w].meta.retry_count + 1

C37_DecisionOnIncrementedCount ==
    \A w \in DOMAIN work :
        work[w].result = "failed" /\ work[w].pc = "done" =>
            \A i \in DOMAIN rows :
                rows[i].rid = work[w].src =>
                    (rows[i].status = STATUS_INCOMPLETE
                         <=> ~should_retry_on_failure(work[w].policy, rows[i]))


\* ------------------------------------------------------------ deferral
\* EventTracker.defer_event: the row of get_event_meta is read, its
\* next_query_time parsed (ValueError when parse_normalized_iso8601 does
\* not accept the text: nothing is written), and the later instant is
\* written through _db_update_event_fields as the isoformat of a naive
\* datetime.
tracker_defer_event(rs, e, s, minutes) ==
    IF ~HasMeta(rs, e, s) THEN rs
    ELSE LET meta == get_event_meta(rs, e, s)
         IN  IF meta.next_query_time = NULL \/ ~parse_succeeds(meta.next_query_format)
             THEN rs
             ELSE _update_event_fields(rs, e, s,
                     [next_query_time |-> meta.next_query_time + minutes,
                      next_query_format |-> "naive"])

DeferEvent(e, s, minutes) ==
    /\ rows' = tracker_defer_event(rows, e, s, minutes)
    /\ UNCHANGED <<nextRid, now, poller, work, fetched, tracker, loop, mutex,
                   policyCall, mergeCall, formatCall, webCall, listener>>

\* The textual forms of next_query_time that the store writes by itself:
\* now.isoformat(timespec='seconds') of add_event and the isoformat of
\* defer_event.  "fraction" is a string of a caller.
StoreFormats == {"aware", "naive"}

NextDefer ==
    \/ Tick
    \/ \E e \in Events, s \in StoreServices, st \in Stages, f \in {"aware", "fraction"} :
          RegisterNewSchedule(e, s, st, DefaultExpirationMinutes, f)
    \/ \E e \in Events, s \in StoreServices : Defer(e, s, TickMinutes)
    \/ \E e \in Events, s \in StoreServices : DeferEvent(e, s, TickMinutes)

\* Registrations and deferrals, through the store and through the tracker.
SpecDefer == Init /\ [][NextDefer]_vars

\* The rows without the textual form of next_query_time.
Instants(rs) ==
    [j \in DOMAIN rs |-> [rs[j] EXCEPT !.next_query_format = NONE]]

\* rs with TickMinutes added to the next_query_time of row i alone.
DeferredAt(rs, i) ==
    Instants([rs EXCEPT ![i].next_query_time = @ + TickMinutes])

\* C38: Defer(key, d) on an existing row sets that row's next_query_time to
\* its previous value plus d minutes and changes nothing else (no other
\* field, no other row, no row more or less), and it succeeds for every
\* next_query_time that the store itself has written.
C38_DeferAddsMinutes ==
    \A i \in DOMAIN rows :
        rows[i].next_query_time # NULL =>
            LET e == rows[i].event_id
                s == rows[i].service
                by_store == defer_event(rows, nextRid, e, s, now, TickMinutes)
                by_tracker == tracker_defer_event(rows, e, s, TickMinutes)
            IN  /\ rows[i].next_query_format \in StoreFormats =>
                      by_store # rows /\ by_tracker # rows
                /\ by_store # rows => Instants(by_store) = DeferredAt(rows, i)
                /\ by_tracker # rows => Instants(by_tracker) = DeferredAt(rows, i)

\* The parts of C38 one by one, for the tracker's defer_event.
C38_SucceedsOnStoreFormats ==
    \A i \in DOMAIN rows :
        rows[i].next_query_time # NULL /\ rows[i].next_query_format \in StoreFormats =>
            tracker_defer_event(rows, rows[i].event_id, rows[i].service,
                                TickMinutes) # rows

C38_TrackerChangesOneRow ==
    \A i \in DOMAIN rows :
        LET after == tracker_defer_event(rows, rows[i].event_id,
                                         rows[i].service, TickMinutes)
        IN  after # rows => Instants(after) = DeferredAt(rows, i)

C38_StoreChangesOneRow ==
    \A i \in DOMAIN rows :
        LET after == defer_event(rows, nextRid, rows[i].event_id,
                                 rows[i].service, now, TickMinutes)
        IN  after # rows => Instants(after) = DeferredAt(rows, i)

\* When the text parses and the series has one row, the tracker's
\* defer_event does what C38 says.
C38_SingleRowDeferred ==
    \A i \in DOMAIN rows :
        LET e == rows[i].event_id
            s == rows[i].service
        IN  /\ Cardinality(SeriesRows(rows, e, s)) = 1
            /\ rows[i].next_query_time # NULL
            /\ parse_succeeds(rows[i].next_query_format)
            => Instants(tracker_defer_event(rows, e, s, TickMinutes))
                  = DeferredAt(rows, i)


\* ------------------------------------------------------------- open_url
\* open_url(url, opener, retries=3, timeout=10, wait=2)
Retries == 3

\* query, line 186: the codes for which the response is not parsed.
HttpFailureCodes == {400, 404, 500, 501, 502, 503}

\* What one opener.open(url, timeout) can do: return a response with a body
\* (kind "ok"), return a response of length 0, raise HTTPError with the
\* status of the server, raise URLError, or raise anything else that is an
\* Exception (socket.timeout, for one).
OpenerOutcomes ==
    {[kind |-> "ok", code |-> c] : c \in {200, 203}}
      \cup {[kind |-> "empty", code |-> c] : c \in {200, 204}}
      \cup {[kind |-> "HTTPError", code |-> c] : c \in {404, 429, 503}}
      \cup {[kind |-> k, code |-> NULL] : k \in {"URLError", "timeout"}}

\* The exception an attempt ends with: the ValueError of line 247 for an
\* empty response, else what the opener raised.
exception_of(outcome) ==
    IF outcome.kind = "empty" THEN "ValueError" ELSE outcome.kind

\* getattr(e, 'code', 400) of line 253, and the 400 of line 259.
code_of(outcome) ==
    IF outcome.kind = "HTTPError" THEN outcome.code ELSE 400

\* A loop that makes one pass more than range(retries).
one_pass_more(attempt) == attempt < Retries + 1

\* for attempt in range(retries)
in_range(attempt) == attempt < Retries

\* A request at the call of open_url.  opened lists what the opener did at
\* each attempt of this request and slept counts the calls of time.sleep;
\* no action reads the two.
NewRequest ==
    [pc |-> "open", attempt |-> 0, code |-> NULL, url_response |-> NONE,
     error |-> NONE, last_exception |-> NONE, opened |-> <<>>, slept |-> 0,
     parsed |-> 0, result |-> NONE]

InitOpenUrl ==
    /\ webCall = NewRequest
    /\ tracker = NewTracker
    /\ rows = <<>>
    /\ nextRid = 1
    /\ now = 0
    /\ poller = [p \in Pollers |-> IdlePoller]
    /\ work = <<>>
    /\ fetched = NoFetch
    /\ loop = RunningLoop
    /\ mutex = FreeMutex
    /\ policyCall = NoPolicyCall
    /\ mergeCall = NoMergeCall
    /\ formatCall = NoFormatCall
    /\ listener = NoAlert

\* open_url, lines 237-260: one pass of the loop body.  A response with a
\* body is returned from inside the loop; every Exception is caught.
OpenAttempt(outcome) ==
    /\ webCall.pc = "open"
    /\ in_range(webCall.attempt)
    /\ webCall' =
          IF outcome.kind = "ok"
          THEN [webCall EXCEPT !.pc = "returned", !.code = outcome.code,
                               !.url_response = "response", !.error = NONE,
                               !.opened = Append(@, outcome)]
          ELSE [webCall EXCEPT !.pc = "failed",
                               !.last_exception = exception_of(outcome),
                               !.code = code_of(outcome),
                               !.url_response = NONE,
                               !.error = exception_of(outcome),
                               !.opened = Append(@, outcome)]
    /\ UNCHANGED <<rows, nextRid, now, poller, work, fetched, tracker, loop,
                   mutex, policyCall, mergeCall, formatCall, listener>>

\* open_url, lines 263-266: time.sleep(wait) unless this was the last pass,
\* then the next pass.
WaitBeforeRetry ==
    /\ webCall.pc = "failed"
    /\ webCall' = [webCall EXCEPT !.pc = "open", !.attempt = @ + 1,
                                  !.slept = IF webCall.attempt < Retries - 1
                                            THEN @ + 1 ELSE @]
    /\ UNCHANGED <<rows, nextRid, now, poller, work, fetched, tracker, loop,
                   mutex, policyCall, mergeCall, formatCall, listener>>

\* open_url, lines 268-269: the loop has ended, the last error is returned.
ReturnLastError ==
    /\ webCall.pc = "open"
    /\ ~in_range(webCall.attempt)
    /\ webCall' = [webCall EXCEPT !.pc = "returned",
                                  !.error = webCall.last_exception]
    /\ UNCHANGED <<rows, nextRid, now, poller, work, fetched, tracker, loop,
                   mutex, policyCall, mergeCall, formatCall, listener>>

\* query, lines 183-193: the response is parsed unless there is none or
\* the code is one of the failure codes.
QueryReturn ==
    /\ webCall.pc = "returned"
    /\ webCall' =
          IF webCall.url_response # NONE /\ webCall.code \notin HttpFailureCodes
          THEN [webCall EXCEPT !.pc = "done", !.parsed = @ + 1,
                               !.result = <<webCall.code, "parsed">>]
          ELSE [webCall EXCEPT !.pc = "done",
                               !.result = <<webCall.code, NONE>>]
    /\ UNCHANGED <<rows, nextRid, now, poller, work, fetched, tracker, loop,
                   mutex, policyCall, mergeCall, formatCall, listener>>

NextOpenUrl ==
    \/ \E o \in OpenerOutcomes : OpenAttempt(o)
    \/ WaitBeforeRetry
    \/ ReturnLastError
    \/ QueryReturn

\* One query of a web service from the call of open_url to its return.
SpecOpenUrl == InitOpenUrl /\ [][NextOpenUrl]_vars


\* Every attempt of the request so far has failed.
AllFailed == \A i \in DOMAIN webCall.opened : webCall.opened[i].kind # "ok"

\* C39: open_url makes at most 3 attempts for one request, returns at once
\* on the first successful attempt, and after 3 failed attempts stops and
\* returns the error result (code of the last failure, no response, last
\* error); query then returns (code, None) and parses nothing.
C39_OpenUrlRetriesThenReturnsError ==
    LET n == Len(webCall.opened)
        returned == webCall.pc \in {"returned", "done"}
    IN  /\ n <= 3
        /\ \A i \in 1 .. n :
              webCall.opened[i].kind = "ok" =>
                  /\ i = n
                  /\ returned
                  /\ webCall.url_response # NONE
                  /\ webCall.code = webCall.opened[i].code
                  /\ webCall.error = NONE
        /\ webCall.slept <= 2
        /\ returned /\ AllFailed =>
              /\ n = 3
              /\ webCall.slept = 2
              /\ webCall.code = code_of(webCall.opened[n])
              /\ webCall.url_response = NONE
              /\ webCall.error = exception_of(webCall.opened[n])
        /\ webCall.pc = "done" /\ AllFailed =>
              /\ webCall.result = <<code_of(webCall.opened[n]), NONE>>
              /\ webCall.parsed = 0

\* query has returned (code, None) after three failed attempts of which the
\* last was an HTTPError.
C39_Witness ==
    /\ webCall.pc = "done"
    /\ Len(webCall.opened) = 3
    /\ AllFailed
    /\ webCall.opened[3].kind = "HTTPError"
    /\ webCall.result = <<webCall.opened[3].code, NONE>>

\* A request answered at its second attempt is returned and parsed.
C39_WitnessSuccess ==
    /\ webCall.pc = "done"
    /\ Len(webCall.opened) = 2
    /\ webCall.opened[2].kind = "ok"
    /\ webCall.parsed = 1


\* ------------------------------------------- formatter of the merged list
\* FinDerFormatterFromRawList.format.  Values of pga are held in units of
\* 0.001, so that round(pga, 3) keeps them as they are.
\* np.log10 of the two values of pga a record can have.
np_log10(pga) == CASE pga = 5 -> 699 [] pga = 7 -> 845

\* Lines 67-72: log10 outside the live mode.
converted_pga(sta, is_live_mode) ==
    IF is_live_mode THEN 1000 * sta.pga ELSE np_log10(sta.pga)

\* Lines 59 and 75-80: the key and the SNCL code; stripping the dots
\* changes nothing in codes that have none.
sncl_of(sta) == <<sta.network, sta.station, sta.location, sta.channel>>

\* Lines 55-64: the first record of each SNCL key is kept.
RECURSIVE valid_stations(_)
valid_stations(station_list) ==
    IF station_list = <<>> THEN <<>>
    ELSE LET rest == valid_stations(SubSeq(station_list, 1, Len(station_list) - 1))
             sta == station_list[Len(station_list)]
         IN  IF \E i \in DOMAIN rest : sncl_of(rest[i]) = sncl_of(sta)
             THEN rest ELSE Append(rest, sta)

\* Lines 82-84 and 103-105: a data line; the SNCL code is written in the live
\* mode only.
DataLine(latitude, longitude, sncl, pga, is_live_mode) ==
    [latitude |-> latitude, longitude |-> longitude,
     sncl |-> IF is_live_mode THEN sncl ELSE <<>>, pga |-> pga]

\* FinderChannel as add_finder_channel builds it.
FinderChannel(latitude, longitude, sncl, pga, is_artificial) ==
    [latitude |-> latitude, longitude |-> longitude, sncl |-> sncl,
     pga |-> pga, is_artificial |-> is_artificial]

SyntheticSncl == <<"XX", "NONE", "00", "HNZ">>

RECURSIVE np_max(_)
np_max(values) ==
    IF Len(values) = 1 THEN values[1]
    ELSE LET m == np_max(Tail(values))
         IN  IF values[1] >= m THEN values[1] ELSE m

\* list.insert(index, item)
insert(list, index, item) ==
    SubSeq(list, 1, index) \o <<item>> \o SubSeq(list, index + 1, Len(list))

\* list.append(item): FinderChannelList.add_finder_channel.
add_finder_channel(list, channel) == Append(list, channel)

\* format: the header, a data line and a channel per valid station in the
\* order of the list, then the synthetic line at index 1 of the lines and
\* the synthetic channel through add_finder_channel.  predicted is the
\* value of Calculator.predict_PGA_from_magnitude; max_obs_pga * 1.2 is
\* cut to the unit.  An empty list makes np.max raise ValueError.
format(event, predicted, is_live_mode, station_list) ==
    LET valid == valid_stations(station_list)
        pgas == [i \in DOMAIN valid |-> converted_pga(valid[i], is_live_mode)]
        lines == [i \in DOMAIN valid |->
                    DataLine(valid[i].latitude, valid[i].longitude,
                             sncl_of(valid[i]), pgas[i], is_live_mode)]
        channels == [i \in DOMAIN valid |->
                       FinderChannel(valid[i].latitude, valid[i].longitude,
                                     sncl_of(valid[i]), pgas[i], FALSE)]
    IN  IF valid = <<>>
        THEN [pc |-> "raised", data_lines |-> <<>>, finder_channels |-> <<>>]
        ELSE LET fake_pga == np_max(<<predicted, (np_max(pgas) * 12) \div 10>>)
             IN  [pc |-> "formatted",
                  data_lines |->
                      insert(<<"header">> \o lines, 1,
                             DataLine(event.latitude, event.longitude,
                                      SyntheticSncl, fake_pga, is_live_mode)),
                  finder_channels |->
                      add_finder_channel(channels,
                          FinderChannel(event.latitude, event.longitude,
                                        SyntheticSncl, fake_pga, TRUE))]

\* The epicenter of the event and the values the prediction can take.
Epicenter == [latitude |-> 4000000, longitude |-> 2800000]

PredictedPga == {1500, 9000}

InitFormat ==
    /\ \E live \in BOOLEAN, predicted \in PredictedPga,
          station_list \in StationLists("ESM") :
             formatCall = [pc |-> "input", is_live_mode |-> live,
                           predicted |-> predicted,
                           station_list |-> station_list,
                           data_lines |-> <<>>, finder_channels |-> <<>>]
    /\ tracker = NewTracker
    /\ rows = <<>>
    /\ nextRid = 1
    /\ now = 0
    /\ poller = [p \in Pollers |-> IdlePoller]
    /\ work = <<>>
    /\ fetched = NoFetch
    /\ loop = RunningLoop
    /\ mutex = FreeMutex
    /\ policyCall = NoPolicyCall
    /\ mergeCall = NoMergeCall
    /\ webCall = NoWebCall
    /\ listener = NoAlert

Format ==
    /\ formatCall.pc = "input"
    /\ LET out == format(Epicenter, formatCall.predicted,
                         formatCall.is_live_mode, formatCall.station_list)
       IN  formatCall' = [formatCall EXCEPT !.pc = out.pc,
                              !.data_lines = out.data_lines,
                              !.finder_channels = out.finder_channels]
    /\ UNCHANGED <<rows, nextRid, now, poller, work, fetched, tracker, loop,
                   mutex, policyCall, mergeCall, webCall, listener>>

NextFormat == Format

\* One call of FinDerFormatterFromRawList.format.
SpecFormat == InitFormat /\ [][NextFormat]_vars

\* A channel of the manifest describes a data line: the same place and
\* value, and the same SNCL code where the line has one.
Describes(channel, line) ==
    /\ channel.latitude = line.latitude
    /\ channel.longitude = line.longitude
    /\ channel.pga = line.pga
    /\ line.sncl # <<>> => channel.sncl = line.sncl

\* C40: the channel manifest is index-parallel to the data lines after the
\* header: entry i describes data line i, the synthetic epicenter entry
\* (is_artificial, XX.NONE.00.HNZ) is the first of both, and both have the
\* same length.
C40_ManifestParallelToLines ==
    formatCall.pc = "formatted" =>
        LET lines == Tail(formatCall.data_lines)
            manifest == formatCall.finder_channels
        IN  /\ Len(manifest) = Len(lines)
            /\ \A i \in DOMAIN manifest : Describes(manifest[i], lines[i])
            /\ manifest[1].is_artificial
            /\ manifest[1].sncl = SyntheticSncl
            /\ lines[1].pga = manifest[1].pga

\* The parts of C40 that the code keeps: the same length, the synthetic
\* line first among the lines, one artificial channel, which is the last.
C40_SameLengthSyntheticLast ==
    formatCall.pc = "formatted" =>
        LET lines == Tail(formatCall.data_lines)
            manifest == formatCall.finder_channels
            n == Len(manifest)
        IN  /\ n = Len(lines)
            /\ Describes(manifest[n], lines[1])
            /\ \A i \in 1 .. n : manifest[i].is_artificial <=> i = n
            /\ \A i \in 1 .. n - 1 : Describes(manifest[i], lines[i + 1])

====
